---- MODULE Spec2Model ----
(***************************************************************************)
(* A model of the transport + policy layer of tripathirajan/fetcher:       *)
(*   - withRetries  (src/src/utils.ts:9-24, and the second definition of   *)
(*                   the same file, lines 61-84)                           *)
(*   - withTimeout  (src/src/utils.ts:34-51)                               *)
(*   - fetchTransport, in the two forms the repository holds:              *)
(*       "A"  src/src/transports/fetchTransport.ts:26-80  (timer and       *)
(*            controller inside fetchPromise, withRetries around it)       *)
(*       "B"  src/src/index.ts:57-104 (withRetries around withTimeout)     *)
(*   - Fetcher.request (src/src/Fetcher.ts:164-191) and the helpers on it  *)
(*   - the client's options and interceptor slots (Fetcher.ts:65-137),     *)
(*     with the transport's settlement as an input                         *)
(*   - the progress loop of fetchPromise (fetchTransport.ts:48-70) under   *)
(*     Fetcher.downloadWithProgress (Fetcher.ts:396-416)                   *)
(*   - xhrTransport (src/src/transports/xhrTransport.ts:30-95), called     *)
(*     directly or by Fetcher.postWithUploadProgress (Fetcher.ts:442-460), *)
(*     with the events of the XMLHttpRequest as inputs                     *)
(* Promises are modelled by their settlement state, timers by a countdown  *)
(* of ticks, and the host's network primitive by nondeterministic events.  *)
(***************************************************************************)
EXTENDS Integers, Sequences, FiniteSets, TLC

VARIABLES
  r_retries,   \* withRetries: the `retries` argument
  r_attempt,   \* withRetries: the local `attempt`
  r_pc,        \* withRetries: position of the async function / executor
  r_att,       \* history of the factory's invocations, in call order
  r_out,       \* the promise withRetries returned
  t_ms,        \* withTimeout: the `ms` argument
  t_pc,        \* withTimeout: "start" before the call, "called" after it
  t_op,        \* withTimeout: the `promise` argument
  t_w,         \* withTimeout: timer, controller and the promise returned
  t_first,     \* which of the operation and the timer came first
  f_variant,   \* which fetchTransport of the repository serves the request
  f_net,       \* "live": the network primitive settles; "never": it does not
  f_timeout,   \* fetchTransport: options.timeout
  f_retries,   \* fetchTransport: options.retries ?? 0
  f_attempt,   \* withRetries inside fetchTransport: `attempt`
  f_pc,        \* withRetries inside fetchTransport: position
  f_atts,      \* the attempts (invocations of fetchPromise), in call order
  f_out,       \* the promise fetchTransport returned
  f_clock,     \* units of time elapsed since the transport was called
  q_pc,        \* Fetcher.request: "dispatching" or "settled"
  q_out,       \* the promise Fetcher.request returned
  h_kind,      \* the operation the caller invoked: request or a helper on it
  h_pc,        \* the helper: "awaiting" request() or "settled"
  h_out,       \* the promise the caller holds
  h_read,      \* the helper's read of the response body: "none", "ok", "failed"
  c_client,    \* the Fetcher instance: timeout, retries, defaultHeaders,
               \* credentials, requestInterceptor, responseInterceptor
  c_req,       \* one call of request() / downloadWithProgress(): position,
               \* per-call config, finalConfig, what it handed to the transport
  c_log,       \* history: registrations, interceptor invocations
  d_pc,        \* downloadWithProgress: "awaiting" the transport or "settled"
  d_calls,     \* invocations of the progress callback, in call order
  d_out,       \* the promise downloadWithProgress returned
  x_pc,        \* the caller of xhrTransport: "start", "awaiting" or "done"
  x_opts,      \* xhrTransport: the options it was called with
  x_xhr,       \* the XMLHttpRequest the transport created
  x_events,    \* the events the primitive has delivered, in order
  x_up,        \* invocations of onUploadProgress, in call order
  x_down,      \* invocations of onDownloadProgress, in call order
  x_out,       \* the promise xhrTransport returned
  x_result,    \* the promise the caller holds
  k_req,       \* concurrent calls of request(): per call its options, position, outcome
  k_act        \* the activations of fetchTransport: the locals of each call

rvars == <<r_retries, r_attempt, r_pc, r_att, r_out>>
tvars == <<t_ms, t_pc, t_op, t_w, t_first>>
hvars == <<h_kind, h_pc, h_out, h_read>>
cvars == <<c_client, c_req, c_log>>
dvars == <<d_pc, d_calls, d_out>>
xvars == <<x_pc, x_opts, x_xhr, x_events, x_up, x_down, x_out, x_result>>
kvars == <<k_req, k_act>>
nvars_k == <<rvars, tvars, f_variant, f_net, f_timeout, f_retries, f_attempt, f_pc, f_atts, f_out,
             f_clock, q_pc, q_out, hvars, cvars, dvars, xvars>>
nvars == <<rvars, tvars, f_variant, f_net, f_timeout, f_retries, f_attempt, f_pc, f_atts, f_out,
           f_clock, q_pc, q_out, hvars, cvars, dvars, kvars>>
fvars == <<f_variant, f_net, f_timeout, f_retries, f_attempt, f_pc, f_atts, f_out, f_clock, q_pc, q_out, hvars,
           cvars, dvars, xvars, kvars>>

vars == <<r_retries, r_attempt, r_pc, r_att, r_out, t_ms, t_pc, t_op, t_w, t_first,
          f_variant, f_net, f_timeout, f_retries, f_attempt, f_pc, f_atts, f_out, f_clock, q_pc, q_out,
          h_kind, h_pc, h_out, h_read, c_client, c_req, c_log, d_pc, d_calls, d_out,
          x_pc, x_opts, x_xhr, x_events, x_up, x_down, x_out, x_result, k_req, k_act>>

(* ------------------------------ bounds --------------------------------- *)
MaxRetries == 3
MaxCalls == 4
MaxMs == 4
MaxFetchRetries == 1
MaxTimeout == 2
MaxChunks == 2
MaxChunkLen == 2

(* ------------------------------ values --------------------------------- *)
\* Every value that can settle a promise has one record shape.
\* Undefined stands for an absent optional argument or header, Null for null.
Undefined == 0 - 1
Null == 0 - 2

\* hasBody: response.body is not null; contentLength: the Content-Length
\* header; bytes: the bytes of a body built from a Blob.
NoVal == [tag |-> "none", isError |-> FALSE, name |-> "", msg |-> "", ms |-> 0, status |-> 0,
          statusText |-> "", body |-> "", bodyUsed |-> FALSE, clone |-> FALSE,
          hasBody |-> FALSE, contentLength |-> Undefined, bytes |-> <<>>, att |-> 0]

Pending == [st |-> "pending", val |-> NoVal]
Resolved(v) == [st |-> "resolved", val |-> v]
Rejected(e) == [st |-> "rejected", val |-> e]

\* What a factory handed to withRetries can produce.  `att` is the number of
\* the invocation that produced the value, so that the value or error of one
\* invocation is never equal to that of another.
Values == {"success", "other"}
Messages == {"fail", "Network error"}
SuccessVal(i, v) == [NoVal EXCEPT !.tag = "value", !.name = v, !.att = i]
FailErr(i, m) == [NoVal EXCEPT !.tag = "err", !.isError = TRUE, !.name = "Error", !.msg = m, !.att = i]

(* --------------------------- withTimeout ------------------------------- *)
\* utils.ts:35  `if (!ms)`
Falsy_OnlyUndefined(ms) == ms = Undefined
Falsy(ms) == ms = Undefined \/ ms = 0

\* utils.ts:47  new Error(`Request timed out after ${ms} ms`); `ms` is the
\* number the template interpolates, `att` the wrapper that made the error.
TimeoutErr(ms, id) ==
  [NoVal EXCEPT !.tag = "err", !.isError = TRUE, !.name = "Error",
                !.msg = "Request timed out after ${ms} ms", !.ms = ms, !.att = id]

\* resolve()/reject() of an already settled promise is a no-op.
SettleOnce(out, new) == IF out.st = "pending" THEN new ELSE out

\* The state of a wrapper before withTimeout is called.
NoWrapper == [id |-> 0, ms |-> Undefined, wrapped |-> FALSE, timer |-> "none",
              remaining |-> 0, aborted |-> FALSE, race |-> Pending]

\* utils.ts:35-38  without `ms` the promise itself is returned; otherwise a
\* controller is made and a timer of length ms armed.
WT_Create(ms, id) ==
  IF Falsy(ms)
    THEN [NoWrapper EXCEPT !.id = id, !.ms = ms]
    ELSE [NoWrapper EXCEPT !.id = id, !.ms = ms, !.wrapped = TRUE,
                           !.timer = "armed", !.remaining = ms]

\* utils.ts:41-44  the promise fulfils: clearTimeout, then the race settles.
\* (Unwrapped, the returned promise is the promise itself.)
WT_OnFulfilled(w, v) ==
  IF w.wrapped
    THEN [w EXCEPT !.timer = IF @ = "armed" THEN "cleared" ELSE @,
                   !.race = SettleOnce(@, Resolved(v))]
    ELSE [w EXCEPT !.race = Resolved(v)]

\* utils.ts:41  .then() has no rejection handler: the rejection passes
\* through to the race and the timer is left alone.
WT_OnRejected_NotForwarded(w, e) == w
WT_OnRejected(w, e) ==
  IF w.wrapped
    THEN [w EXCEPT !.race = SettleOnce(@, Rejected(e))]
    ELSE [w EXCEPT !.race = Rejected(e)]

\* utils.ts:38,46-47  the timer fires: controller.abort(), whose listener
\* rejects the second promise of the race.
WT_OnTimer_Overrides(w) ==
  [w EXCEPT !.timer = "fired", !.aborted = TRUE,
            !.race = Rejected(TimeoutErr(w.ms, w.id))]
WT_OnTimer(w) ==
  [w EXCEPT !.timer = "fired", !.aborted = TRUE,
            !.race = SettleOnce(@, Rejected(TimeoutErr(w.ms, w.id)))]

\* one unit of time passes for an armed timer
WT_Tick(w) == [w EXCEPT !.remaining = @ - 1]
TimerDue(w) == w.timer = "armed" /\ w.remaining = 0
TimerRunning(w) == w.timer = "armed" /\ w.remaining > 0

TimeoutIdle ==
  /\ t_ms = Undefined
  /\ t_pc = "idle"
  /\ t_op = Pending
  /\ t_w = NoWrapper
  /\ t_first = "none"

(* values of the client and of one call while no call is modelled *)
Absent == "absent"
None == "none"
HeaderNames == {"Authorization", "Content-Type", "X-Trace"}
NoHeaders == [n \in HeaderNames |-> Absent]
NoCfg == [method |-> Absent, headers |-> NoHeaders, credentials |-> Absent,
          timeout |-> Undefined, retries |-> Undefined, body |-> Absent]
NoOptions == [baseURL |-> Absent, timeout |-> Undefined, retries |-> Undefined, headers |-> NoHeaders,
              credentials |-> Absent]
NoSent == [sent |-> FALSE, config |-> NoCfg, timeout |-> 0, retries |-> 0]
NoClient == [baseURL |-> "", timeout |-> 0, retries |-> 0, headers |-> NoHeaders, credentials |-> Absent,
             requestInterceptor |-> None, responseInterceptor |-> None]
NoRequest == [pc |-> "idle", op |-> "request", payload |-> Absent, config |-> NoCfg,
              requestConfig |-> NoCfg, finalConfig |-> NoCfg,
              sent |-> NoSent, attempts |-> 0, running |-> None, response |-> Pending,
              requestOut |-> Pending, out |-> Pending]
NoLog == [lastRequestUse |-> None, lastResponseUse |-> None,
          ranRequest |-> <<>>, ranResponse |-> <<>>,
          given |-> NoCfg, returned |-> NoCfg, atDispatch |-> None, options |-> NoOptions]

ClientIdle ==
  /\ c_client = NoClient
  /\ c_req = NoRequest
  /\ c_log = NoLog

DownloadIdle ==
  /\ d_pc = "idle"
  /\ d_calls = <<>>
  /\ d_out = Pending

(* values of the legacy transport while no call of it is modelled *)
NoEvent == [type |-> None, loaded |-> 0, total |-> 0, status |-> 0, statusText |-> "",
            raw |-> <<>>, response |-> ""]
NoXhrOptions == [op |-> None, method |-> Absent, headers |-> NoHeaders, body |-> Absent,
                 timeout |-> Undefined, credentials |-> Absent,
                 onDownloadProgress |-> FALSE, onUploadProgress |-> FALSE]
NoXhr == [calls |-> <<>>, method |-> Absent, withCredentials |-> FALSE, timeout |-> 0,
          requestHeaders |-> NoHeaders, responseType |-> "", upload |-> FALSE,
          onprogress |-> FALSE, uploadOnprogress |-> FALSE,
          onload |-> FALSE, onerror |-> FALSE, ontimeout |-> FALSE,
          sent |-> FALSE, body |-> Absent, threw |-> FALSE, uncaught |-> 0]
XhrIdle ==
  /\ x_pc = "idle"
  /\ x_opts = NoXhrOptions
  /\ x_xhr = NoXhr
  /\ x_events = <<>>
  /\ x_up = <<>>
  /\ x_down = <<>>
  /\ x_out = Pending
  /\ x_result = Pending

\* One call of request() among concurrent ones, before it is made.
NoCall == [pc |-> "idle", timeout |-> Undefined, retries |-> 0, started |-> 0, out |-> Pending]
\* The locals of one call of fetchTransport, before the call.
NoActivation ==
  [timeout |-> Undefined, retries |-> 0, attempt |-> 0, pc |-> "idle", out |-> Pending,
   atts |-> <<>>]
Requests == {1, 2}
ConcurrentIdle ==
  /\ k_req = [i \in Requests |-> NoCall]
  /\ k_act = [c \in Requests |-> NoActivation]

TransportQuiet ==
  /\ f_net = "live"
  /\ f_timeout = 0
  /\ f_retries = 0
  /\ f_attempt = 0
  /\ f_pc = "idle"
  /\ f_atts = <<>>
  /\ f_out = Pending
  /\ f_clock = 0
  /\ q_pc = "idle"
  /\ q_out = Pending
  /\ h_kind = "request"
  /\ h_pc = "idle"
  /\ h_out = Pending
  /\ h_read = "none"
TransportIdle ==
  /\ f_variant = "A"
  /\ TransportQuiet

FetchIdle ==
  /\ ClientIdle
  /\ DownloadIdle
  /\ XhrIdle
  /\ ConcurrentIdle
  /\ TransportIdle

RetryIdle ==
  /\ r_retries = 0
  /\ r_attempt = 0
  /\ r_pc = "idle"
  /\ r_att = <<>>
  /\ r_out = Pending

\* A caller holds a promise and is about to call withTimeout(promise, ms).
InitTimeout ==
  /\ RetryIdle
  /\ FetchIdle
  /\ t_ms \in {Undefined} \cup (0..MaxMs)
  /\ t_pc = "start"
  /\ t_op = Pending
  /\ t_w = NoWrapper
  /\ t_first = "none"

\* The callbacks withTimeout attached to an already settled promise run as
\* microtasks of the call.
WT_Attach(w, op) ==
  CASE op.st = "resolved" -> WT_OnFulfilled(w, op.val)
    [] op.st = "rejected" -> WT_OnRejected(w, op.val)
    [] OTHER -> w

\* utils.ts:34-51  the call of withTimeout.
T_Call ==
  /\ t_pc = "start"
  /\ t_pc' = "called"
  /\ t_w' = WT_Attach(WT_Create(t_ms, 1), t_op)
  /\ UNCHANGED <<t_ms, t_op, t_first>>
  /\ UNCHANGED <<rvars, fvars>>

\* the operation fulfils (before or after the call)
T_OpResolve ==
  /\ t_pc \in {"start", "called"}
  /\ t_op = Pending
  /\ \E v \in Values :
       /\ t_op' = Resolved(SuccessVal(1, v))
       /\ t_w' = IF t_pc = "called" THEN WT_OnFulfilled(t_w, SuccessVal(1, v)) ELSE t_w
  /\ t_first' = IF t_first = "none" THEN "op" ELSE t_first
  /\ UNCHANGED <<t_ms, t_pc>>
  /\ UNCHANGED <<rvars, fvars>>

\* the operation rejects (before or after the call)
T_OpReject ==
  /\ t_pc \in {"start", "called"}
  /\ t_op = Pending
  /\ \E m \in Messages :
       /\ t_op' = Rejected(FailErr(1, m))
       /\ t_w' = IF t_pc = "called" THEN WT_OnRejected(t_w, FailErr(1, m)) ELSE t_w
  /\ t_first' = IF t_first = "none" THEN "op" ELSE t_first
  /\ UNCHANGED <<t_ms, t_pc>>
  /\ UNCHANGED <<rvars, fvars>>

\* time passes while the timer is armed and not yet due
T_Tick ==
  /\ t_pc = "called"
  /\ TimerRunning(t_w)
  /\ t_w' = WT_Tick(t_w)
  /\ UNCHANGED <<t_ms, t_pc, t_op, t_first>>
  /\ UNCHANGED <<rvars, fvars>>

\* utils.ts:38  the timer callback runs
T_TimerFire ==
  /\ t_pc = "called"
  /\ TimerDue(t_w)
  /\ t_w' = WT_OnTimer(t_w)
  /\ t_first' = IF t_first = "none" THEN "timer" ELSE t_first
  /\ UNCHANGED <<t_ms, t_pc, t_op>>
  /\ UNCHANGED <<rvars, fvars>>

NextTimeout == T_Call \/ T_OpResolve \/ T_OpReject \/ T_Tick \/ T_TimerFire

SpecTimeout == InitTimeout /\ [][NextTimeout]_vars

(* --------------------------- withRetries ------------------------------- *)
\* utils.ts:18  `if (attempt >= retries) throw err;`
ShouldRethrow_OffByOne(attempt, retries) == attempt > retries
ShouldRethrow(attempt, retries) == attempt >= retries

\* utils.ts:16  `return await fn();` on fulfilment: the function returns.
OnFulfilled_KeepsLooping(s, v) == [s EXCEPT !.pc = "call"]
OnFulfilled(s, v) == [s EXCEPT !.pc = "done", !.out = Resolved(v)]

\* utils.ts:17-22  the catch block.
OnRejected_GivesUp(s, e) == [s EXCEPT !.pc = "done", !.out = Rejected(e)]
OnRejected(s, e) ==
  IF ShouldRethrow(s.attempt, s.retries)
    THEN [s EXCEPT !.pc = "done", !.out = Rejected(e)]
    ELSE [s EXCEPT !.attempt = @ + 1, !.pc = "call"]

RState == [retries |-> r_retries, attempt |-> r_attempt, pc |-> r_pc, out |-> r_out]

RSet(s) ==
  /\ r_attempt' = s.attempt
  /\ r_pc' = s.pc
  /\ r_out' = s.out
  /\ r_retries' = s.retries
  /\ UNCHANGED <<tvars, fvars>>

\* utils.ts:13  `let attempt = 0;` and entry of the loop.
InitRetry ==
  /\ TimeoutIdle
  /\ FetchIdle
  /\ r_retries \in 0..MaxRetries
  /\ r_attempt = 0
  /\ r_pc = "call"
  /\ r_att = <<>>
  /\ r_out = Pending

\* utils.ts:16  the factory is invoked; it returns a promise or throws.
R_Call ==
  /\ r_pc = "call"
  /\ LET i == Len(r_att) + 1 IN
     \/ /\ r_att' = Append(r_att, Pending)
        /\ RSet([RState EXCEPT !.pc = "await"])
     \/ \E m \in Messages :
          /\ r_att' = Append(r_att, [st |-> "threw", val |-> FailErr(i, m)])
          /\ RSet(OnRejected(RState, FailErr(i, m)))

\* utils.ts:16-17  the awaited promise settles.
R_Settle ==
  /\ r_pc = "await"
  /\ LET i == Len(r_att) IN
     \/ \E v \in Values :
          /\ r_att' = [r_att EXCEPT ![i] = Resolved(SuccessVal(i, v))]
          /\ RSet(OnFulfilled(RState, SuccessVal(i, v)))
     \/ \E m \in Messages :
          /\ r_att' = [r_att EXCEPT ![i] = Rejected(FailErr(i, m))]
          /\ RSet(OnRejected(RState, FailErr(i, m)))

NextRetry == R_Call \/ R_Settle

SpecRetry == InitRetry /\ [][NextRetry]_vars

(* ------------------ withRetries, second definition --------------------- *)
\* utils.ts:61-84.  The executor of `new Promise` runs its `while` loop
\* synchronously; the .then/.catch callbacks of the promises fn() returned
\* are microtasks and run only once the executor has returned.

\* utils.ts:65-67
InitRetryV2 ==
  /\ TimeoutIdle
  /\ FetchIdle
  /\ r_retries \in 0..MaxRetries
  /\ r_attempt = 0
  /\ r_pc = "loop"
  /\ r_att = <<>>
  /\ r_out = Pending

\* utils.ts:67-81  one iteration of the loop: fn() returns a promise (the
\* callbacks are attached, nothing else changes) or throws (catch block).
\* The loop of the source is unbounded; MaxCalls caps the model's history.
R2_Loop ==
  /\ r_pc = "loop"
  /\ r_attempt <= r_retries
  /\ Len(r_att) < MaxCalls
  /\ LET i == Len(r_att) + 1 IN
     \/ /\ r_att' = Append(r_att, Pending)
        /\ UNCHANGED <<r_retries, r_attempt, r_pc, r_out>>
        /\ UNCHANGED <<tvars, fvars>>
     \/ \E m \in Messages :
          /\ r_att' = Append(r_att, [st |-> "threw", val |-> FailErr(i, m)])
          /\ UNCHANGED <<tvars, fvars>>
          /\ IF r_attempt = r_retries
               THEN /\ r_out' = SettleOnce(r_out, Rejected(FailErr(i, m)))
                    /\ r_pc' = "returned"
                    /\ UNCHANGED r_attempt
               ELSE /\ r_attempt' = r_attempt + 1
                    /\ UNCHANGED <<r_pc, r_out>>
          /\ UNCHANGED r_retries

\* utils.ts:70-77  a promise fn() returned settles and its callback runs.
R2_Settle ==
  /\ r_pc = "returned"
  /\ \E i \in 1..Len(r_att) :
       /\ r_att[i].st = "pending"
       /\ \/ \E v \in Values :
               /\ r_att' = [r_att EXCEPT ![i] = Resolved(SuccessVal(i, v))]
               /\ r_out' = SettleOnce(r_out, Resolved(SuccessVal(i, v)))
               /\ UNCHANGED r_attempt
          \/ \E m \in Messages :
               /\ r_att' = [r_att EXCEPT ![i] = Rejected(FailErr(i, m))]
               /\ IF r_attempt = r_retries
                    THEN /\ r_out' = SettleOnce(r_out, Rejected(FailErr(i, m)))
                         /\ UNCHANGED r_attempt
                    ELSE /\ r_attempt' = r_attempt + 1
                         /\ UNCHANGED r_out
  /\ UNCHANGED <<r_retries, r_pc>>
  /\ UNCHANGED <<tvars, fvars>>

NextRetryV2 == R2_Loop \/ R2_Settle

SpecRetryV2 == InitRetryV2 /\ [][NextRetryV2]_vars

(* ------------------- fetchTransport and Fetcher.request ---------------- *)
\* What the network primitive (fetch) can produce for attempt i.
Statuses == {200, 500}
\* Response.ok
IsOk(status) == status >= 200 /\ status <= 299
\* the status text and the body text the server sends with a status
StatusTextOf(status) == IF status = 200 THEN "OK" ELSE "Server Error"
BodyTextOf(status) ==
  IF status = 200 THEN "{\"message\":\"Success\"}" ELSE "Internal error"
\* The body texts that are JSON.
JsonTexts == {"{\"message\":\"Success\"}", "{\"ok\":true}"}
Resp(status, i) ==
  [NoVal EXCEPT !.tag = "resp", !.name = "Response", !.status = status,
                !.statusText = StatusTextOf(status), !.body = BodyTextOf(status),
                !.hasBody = TRUE, !.att = i]
\* a rejection of fetch that is not a cancellation: TypeError('Failed to fetch'),
\* and a thrown value that is not an Error although it is named 'AbortError'
NetworkErr(i) ==
  [NoVal EXCEPT !.tag = "err", !.isError = TRUE, !.name = "TypeError", !.msg = "Failed to fetch", !.att = i]
NonErrorAbortLike(i) ==
  [NoVal EXCEPT !.tag = "err", !.isError = FALSE, !.name = "AbortError", !.msg = "thrown object", !.att = i]
NetErrors(i) == {NetworkErr(i), NonErrorAbortLike(i)}
\* the DOMException fetch rejects with once its signal is aborted
AbortErr(i) ==
  [NoVal EXCEPT !.tag = "err", !.isError = TRUE, !.name = "AbortError", !.msg = "Aborted", !.att = i]
\* HttpError.ts:11-23  new HttpError(status, statusText, type)
HttpErr(status, statusText, i) ==
  [NoVal EXCEPT !.tag = "err", !.isError = TRUE, !.name = "HttpError", !.msg = "HttpError",
                !.status = status, !.statusText = statusText, !.att = i]
\* Fetcher.ts:187  new Error('Request timed out')
RequestTimedOut ==
  [NoVal EXCEPT !.tag = "err", !.isError = TRUE, !.name = "Error", !.msg = "Request timed out"]

\* fetchTransport.ts:40-43 (variant A)
\*   if (timeout) timeoutId = setTimeout(() => controller.abort(), timeout)
FP_Timer_SharedDeadline(timeout, i) ==
  IF Falsy(timeout)
    THEN [NoWrapper EXCEPT !.id = i, !.ms = timeout]
    ELSE [NoWrapper EXCEPT !.id = i, !.ms = timeout, !.timer = "armed",
                           !.remaining = IF timeout > f_clock THEN timeout - f_clock ELSE 0]
FP_Timer(timeout, i) ==
  IF Falsy(timeout)
    THEN [NoWrapper EXCEPT !.id = i, !.ms = timeout]
    ELSE [NoWrapper EXCEPT !.id = i, !.ms = timeout, !.timer = "armed", !.remaining = timeout]

\* fetchTransport.ts:48-70  the locals of the progress loop of one invocation.
\* state: "none" (no loop), "reading", "done", "failed"; sent: the bytes the
\* stream has delivered; chunks, received, total: `chunks`, `received`,
\* `contentLength`; result: the Response built after the loop.
NoDownload ==
  [state |-> "none", sent |-> 0, chunks |-> <<>>, received |-> 0, total |-> Null,
   result |-> NoVal]

\* One invocation of fetchPromise.
\*   A: fetchTransport.ts:31-46  controller, signal handed to fetch, timer.
\*   B: index.ts:62-71,103  controller and signal handed to fetch; the promise
\*      is then wrapped by withTimeout(fetchPromise(), timeout).
\* net: the promise of fetch(); signal: whether the signal handed to fetch is
\* aborted; w: timer / controller / promise handed to withRetries; start: the
\* time of the invocation; first: which of settlement and timer came first.
\* dl: the progress loop of the invocation (see NoDownload).
NewAttempt(variant, timeout, i) ==
  [net |-> Pending, signal |-> FALSE,
   w |-> IF variant = "A" THEN FP_Timer(timeout, i) ELSE WT_Create(timeout, i),
   start |-> f_clock, first |-> "none", dl |-> NoDownload]

\* fetchTransport.ts:74-76 (variant A)  finally { if (timeoutId) clearTimeout(timeoutId) }
FP_Finally(w, out) ==
  [w EXCEPT !.timer = IF @ = "armed" THEN "cleared" ELSE @, !.race = out]

\* What fetchPromise does with the response of fetch (no progress callback).
\*   A: fetchTransport.ts:46,73  the response is returned whatever its status.
\*   B: index.ts:71-74,100       a response that is not ok throws HttpError.
FP_Result(variant, resp, i) ==
  IF variant = "B" /\ ~IsOk(resp.status)
    THEN Rejected(HttpErr(resp.status, resp.statusText, i))
    ELSE Resolved(resp)

\* The attempt after its fetch() promise has settled with `netOut`.
AttemptAfterNet(variant, a, netOut, i) ==
  LET res == IF netOut.st = "resolved" THEN FP_Result(variant, netOut.val, i) ELSE netOut
      w2 == IF variant = "A" THEN FP_Finally(a.w, res)
            ELSE IF res.st = "resolved" THEN WT_OnFulfilled(a.w, res.val)
            ELSE WT_OnRejected(a.w, res.val)
  IN [a EXCEPT !.net = netOut, !.w = w2,
               !.first = IF @ = "none" THEN "op" ELSE @]

\* The attempt after its timer has fired.
\*   A: fetchTransport.ts:42  controller.abort() aborts the signal fetch holds.
\*   B: utils.ts:38,46-47     withTimeout's own controller aborts and the race
\*      rejects; the controller of fetchPromise (index.ts:63-65) is untouched.
AttemptAfterTimer_NoAbort(variant, a) ==
  [a EXCEPT !.w.timer = "fired", !.first = IF @ = "none" THEN "timer" ELSE @]
AttemptAfterTimer(variant, a) ==
  IF variant = "A"
    THEN [a EXCEPT !.signal = TRUE, !.w.timer = "fired", !.w.aborted = TRUE,
                   !.first = IF @ = "none" THEN "timer" ELSE @]
    ELSE [a EXCEPT !.w = WT_OnTimer(a.w),
                   !.first = IF @ = "none" THEN "timer" ELSE @]

FState == [retries |-> f_retries, attempt |-> f_attempt, pc |-> f_pc, out |-> f_out]

FSet(s) ==
  /\ f_attempt' = s.attempt
  /\ f_pc' = s.pc
  /\ f_out' = s.out

\* utils.ts:15-22  withRetries resumes when the promise it awaits (that of
\* the latest attempt) goes from pending to settled.
RetryResume(s, i, before, after) ==
  IF s.pc = "await" /\ i = Len(f_atts) /\ before.st = "pending" /\ after.st # "pending"
    THEN IF after.st = "resolved" THEN OnFulfilled(s, after.val) ELSE OnRejected(s, after.val)
    ELSE s

\* Fetcher.ts:185-190  the catch block of request().
RemapError_Never(err) == err
RemapError(err) ==
  IF err.isError /\ err.name = "AbortError" THEN RequestTimedOut ELSE err

\* Fetcher.ts:178-190  request() resumes after `await fetchTransport(...)`
\* (no response interceptor registered: handleResponse returns the response).
RequestResult(out) ==
  IF out.st = "rejected" THEN Rejected(RemapError(out.val)) ELSE out

\* The operations of the client that go through request().
Operations == {"request", "get", "post", "put", "delete"}

\* Fetcher.ts:238-239  errorText = await response.text();
\*   new Error(`HTTP ${response.status}: ${errorText}`)
\* The message is kept as its template and the two values it interpolates
\* (status and body).
HttpStatusMessageErr_StatusText(resp) ==
  [NoVal EXCEPT !.tag = "err", !.isError = TRUE, !.name = "Error",
                !.msg = "HTTP ${response.status}: ${errorText}",
                !.status = resp.status, !.body = resp.statusText, !.att = resp.att]
HttpStatusMessageErr(resp) ==
  [NoVal EXCEPT !.tag = "err", !.isError = TRUE, !.name = "Error",
                !.msg = "HTTP ${response.status}: ${errorText}",
                !.status = resp.status, !.body = resp.body, !.att = resp.att]
\* response.json(): the promise of the parsed body, rejected with a
\* SyntaxError when the body is not JSON
JsonSyntaxErr(resp) ==
  [NoVal EXCEPT !.tag = "err", !.isError = TRUE, !.name = "SyntaxError",
                !.msg = "Unexpected token in JSON", !.body = resp.body, !.att = resp.att]
JsonOf(resp) ==
  IF resp.body \in JsonTexts
    THEN Resolved([resp EXCEPT !.tag = "json", !.name = "parsed body"])
    ELSE Rejected(JsonSyntaxErr(resp))

\* What the caller's promise settles with once request() has settled.
\*   request  Fetcher.ts:164-191  the promise of request() itself
\*   get      Fetcher.ts:235-242  throws 'HTTP s: text' unless response.ok
\*   post     Fetcher.ts:271-286, put 317-332, delete 360-366: response.json()
\* A rejection of request() passes through every `await this.request(...)`.
HelperResult(kind, out) ==
  IF out.st = "rejected" \/ kind = "request" THEN out
  ELSE IF kind = "get" /\ ~IsOk(out.val.status) THEN Rejected(HttpStatusMessageErr(out.val))
  ELSE JsonOf(out.val)

\* Fetcher.ts:238, 241  response.text() and response.json() reject when the
\* body cannot be read (the stream fails); nothing in the helper catches it.
BodyReadErr(res) ==
  [NoVal EXCEPT !.tag = "err", !.isError = TRUE, !.name = "TypeError",
                !.msg = "Failed to read the response body", !.att = res.att]
\* Whether the helper reads the body of what request() settled with.
ReadsBody(kind, out) == kind # "request" /\ out.st = "resolved"
\* The helper's outcome given how its read of the body went.
HelperOutcome(kind, out, read) ==
  IF read = "failed" THEN Rejected(BodyReadErr(out.val)) ELSE HelperResult(kind, out)

\* Fetcher.ts:164-183 / fetchTransport.ts:26-30,79: request() has called the
\* transport, which is about to invoke fetchPromise for the first time.
InitFetch ==
  /\ XhrIdle
  /\ ConcurrentIdle
  /\ RetryIdle
  /\ TimeoutIdle
  /\ ClientIdle
  /\ DownloadIdle
  /\ f_variant \in {"A", "B"}
  /\ f_net \in {"live", "never"}
  /\ f_timeout \in {Undefined} \cup (0..MaxTimeout)
  /\ f_retries \in 0..MaxFetchRetries
  /\ f_attempt = 0
  /\ f_pc = "call"
  /\ f_atts = <<>>
  /\ f_out = Pending
  /\ f_clock = 0
  /\ q_pc = "dispatching"
  /\ q_out = Pending
  /\ h_kind \in Operations
  /\ h_pc = "awaiting"
  /\ h_out = Pending
  /\ h_read = "none"

\* utils.ts:16  withRetries invokes the factory: a new attempt starts.
F_Attempt ==
  /\ f_pc = "call"
  /\ f_atts' = Append(f_atts, NewAttempt(f_variant, f_timeout, Len(f_atts) + 1))
  /\ f_pc' = "await"
  /\ UNCHANGED <<f_variant, f_net, f_timeout, f_retries, f_attempt, f_out, f_clock, q_pc, q_out>>
  /\ UNCHANGED <<rvars, tvars, hvars, cvars, dvars, xvars, kvars>>

\* the fetch() promise of attempt i settles with `netOut`
NetSettles(i, netOut) ==
  LET a2 == AttemptAfterNet(f_variant, f_atts[i], netOut, i) IN
  /\ f_atts' = [f_atts EXCEPT ![i] = a2]
  /\ FSet(RetryResume(FState, i, f_atts[i].w.race, a2.w.race))
  /\ UNCHANGED <<f_variant, f_net, f_timeout, f_retries, f_clock, q_pc, q_out>>
  /\ UNCHANGED <<rvars, tvars, hvars, cvars, dvars, xvars, kvars>>

\* fetch resolves with a response
F_NetResolve ==
  /\ f_net = "live"
  /\ \E i \in 1..Len(f_atts) :
       /\ f_atts[i].net = Pending
       /\ \E st \in Statuses : NetSettles(i, Resolved(Resp(st, i)))

\* fetch rejects on its own
F_NetReject ==
  /\ f_net = "live"
  /\ \E i \in 1..Len(f_atts) :
       /\ f_atts[i].net = Pending
       /\ \E e \in NetErrors(i) : NetSettles(i, Rejected(e))

\* fetch observes that its signal is aborted and rejects with an AbortError
F_NetAbort ==
  \E i \in 1..Len(f_atts) :
    /\ f_atts[i].net = Pending
    /\ f_atts[i].signal
    /\ NetSettles(i, Rejected(AbortErr(i)))

\* one unit of time passes: every armed timer comes one unit closer
F_Tick ==
  /\ \E i \in 1..Len(f_atts) : TimerRunning(f_atts[i].w)
  /\ \A i \in 1..Len(f_atts) : ~TimerDue(f_atts[i].w)
  /\ f_atts' = [i \in 1..Len(f_atts) |->
                  IF f_atts[i].w.timer = "armed"
                    THEN [f_atts[i] EXCEPT !.w = WT_Tick(@)] ELSE f_atts[i]]
  /\ f_clock' = f_clock + 1
  /\ UNCHANGED <<f_variant, f_net, f_timeout, f_retries, f_attempt, f_pc, f_out, q_pc, q_out>>
  /\ UNCHANGED <<rvars, tvars, hvars, cvars, dvars, xvars, kvars>>

\* the timer of attempt i fires
F_TimerFire ==
  \E i \in 1..Len(f_atts) :
    /\ TimerDue(f_atts[i].w)
    /\ LET a2 == AttemptAfterTimer(f_variant, f_atts[i]) IN
       /\ f_atts' = [f_atts EXCEPT ![i] = a2]
       /\ FSet(RetryResume(FState, i, f_atts[i].w.race, a2.w.race))
    /\ UNCHANGED <<f_variant, f_net, f_timeout, f_retries, f_clock, q_pc, q_out>>
    /\ UNCHANGED <<rvars, tvars, hvars, cvars, dvars, xvars, kvars>>

\* Fetcher.ts:178-190  the transport's promise has settled; request() settles.
Q_Settle ==
  /\ q_pc = "dispatching"
  /\ f_pc = "done"
  /\ q_out' = RequestResult(f_out)
  /\ q_pc' = "settled"
  /\ UNCHANGED <<f_variant, f_net, f_timeout, f_retries, f_attempt, f_pc, f_atts, f_out, f_clock>>
  /\ UNCHANGED <<rvars, tvars, hvars, cvars, dvars, xvars, kvars>>

\* Fetcher.ts:236-241 (get), 276-285, 322-331, 364-365: the helper resumes
\* after `await this.request(...)`.
H_Settle ==
  /\ h_pc = "awaiting"
  /\ q_pc = "settled"
  /\ \E read \in IF ReadsBody(h_kind, q_out) THEN {"ok", "failed"} ELSE {"none"} :
       /\ h_read' = read
       /\ h_out' = HelperOutcome(h_kind, q_out, read)
  /\ h_pc' = "settled"
  /\ UNCHANGED <<f_variant, f_net, f_timeout, f_retries, f_attempt, f_pc, f_atts, f_out, f_clock,
                 q_pc, q_out, h_kind>>
  /\ UNCHANGED <<rvars, tvars, cvars, dvars, xvars, kvars>>

NextFetch ==
  \/ F_Attempt \/ F_NetResolve \/ F_NetReject \/ F_NetAbort
  \/ F_Tick \/ F_TimerFire \/ Q_Settle \/ H_Settle

SpecFetch == InitFetch /\ [][NextFetch]_vars

\* Timers fire and time passes (the host's event loop), an aborted fetch
\* rejects (the fetch standard), and the program's own continuations run.
FairSpecFetch ==
  /\ SpecFetch
  /\ WF_vars(F_Attempt)
  /\ WF_vars(F_Tick)
  /\ WF_vars(F_TimerFire)
  /\ WF_vars(F_NetAbort)
  /\ WF_vars(Q_Settle)
  /\ WF_vars(H_Settle)

(* ------------- the client: configuration and interceptors -------------- *)
\* Fetcher.ts:119-120  this.timeout = config.timeout || 0 (same for retries)
OrZero(v) == IF Falsy(v) THEN 0 ELSE v
\* Fetcher.ts:68-69  the field initializers `timeout: number = 6000` and
\* `retries: number = 0`, which run before the constructor's body
DefaultTimeout == 6000
FieldInitializers == [NoClient EXCEPT !.timeout = DefaultTimeout, !.retries = 0]
\* Fetcher.ts:117-123  the constructor's body assigns every field
Construct(options) ==
  [FieldInitializers EXCEPT !.baseURL = IF options.baseURL = Absent THEN "" ELSE options.baseURL,
                            !.timeout = OrZero(options.timeout),
                            !.retries = OrZero(options.retries),
                            !.headers = options.headers,
                            !.credentials = options.credentials]

\* Fetcher.ts:132-137  { ...this.defaultHeaders, ...(configHeaders || {}) }
MergeHeaders(defaults, configHeaders) ==
  [n \in HeaderNames |-> IF configHeaders[n] # Absent THEN configHeaders[n] ELSE defaults[n]]

\* Fetcher.ts:165-171  finalConfig before the request interceptor
MergeRequest(client, config) ==
  LET merged == [config EXCEPT !.headers = MergeHeaders(client.headers, config.headers)]
  IN IF client.credentials # Absent
       THEN [merged EXCEPT !.credentials = client.credentials]
       ELSE merged

\* JSON.stringify(body)
JsonStringify(body) ==
  CASE body = "{ name: 'Test' }" -> "{\"name\":\"Test\"}"
    [] body = "[1, 2]" -> "[1,2]"
    [] OTHER -> body
\* Fetcher.ts:276-284 (post), 322-330 (put)  the config handed to request():
\*   { ...config, method, body: JSON.stringify(body),
\*     headers: { 'Content-Type': 'application/json', ...this.mergeHeaders(config.headers) } }
JsonRequestConfig(client, op, config, body) ==
  LET merged == MergeHeaders(client.headers, config.headers) IN
  [config EXCEPT !.method = IF op = "post" THEN "POST" ELSE "PUT",
                 !.body = JsonStringify(body),
                 !.headers = [n \in HeaderNames |->
                                IF merged[n] # Absent THEN merged[n]
                                ELSE IF n = "Content-Type" THEN "application/json"
                                ELSE Absent]]
\* The config request() receives from the operation the caller invoked.
\* Fetcher.ts:236, 361  get and delete: { ...config, method }
RequestConfig(client, op, config, body) ==
  CASE op \in {"post", "put"} -> JsonRequestConfig(client, op, config, body)
    [] op = "get" -> [config EXCEPT !.method = "GET"]
    [] op = "delete" -> [config EXCEPT !.method = "DELETE"]
    [] OTHER -> config
\* response.json() on a response whose body was already read rejects
BodyAlreadyRead(res) ==
  [NoVal EXCEPT !.tag = "err", !.isError = TRUE, !.name = "TypeError",
                !.msg = "body stream already read", !.att = res.att]
\* Fetcher.ts:285, 331  `return response.json()` after `await this.request(...)`
ClientResult(op, out) ==
  IF op \in {"get", "post", "put", "delete"} /\ out.st = "resolved" /\ out.val.bodyUsed
    THEN Rejected(BodyAlreadyRead(out.val))
  ELSE HelperResult(op, out)

\* Fetcher.ts:403-407  the config downloadWithProgress hands to the transport
DownloadConfig(client, config) ==
  [config EXCEPT !.method = "GET", !.headers = MergeHeaders(client.headers, config.headers)]

\* Fetcher.ts:181-182, 410-411  config.timeout ?? this.timeout
Nullish_Or(a, b) == IF Falsy(a) THEN b ELSE a
Nullish(a, b) == IF a = Undefined THEN b ELSE a

\* Fetcher.ts:178-183, 401-413  the options handed to fetchTransport
TransportOptions_Merged(client, config, finalConfig) ==
  [sent |-> TRUE, config |-> MergeRequest(client, config),
   timeout |-> Nullish(config.timeout, client.timeout),
   retries |-> Nullish(config.retries, client.retries)]
TransportOptions(client, config, finalConfig) ==
  [sent |-> TRUE, config |-> finalConfig,
   timeout |-> Nullish(config.timeout, client.timeout),
   retries |-> Nullish(config.retries, client.retries)]

\* Fetcher.ts:93-95  interceptors.request.use(fn)
UseRequest_SharedSlot(client, fn) ==
  [client EXCEPT !.requestInterceptor = fn, !.responseInterceptor = fn]
UseRequest(client, fn) == [client EXCEPT !.requestInterceptor = fn]
\* Fetcher.ts:111-113  interceptors.response.use(fn)
UseResponse_ClearsRequest(client, fn) ==
  [client EXCEPT !.responseInterceptor = fn, !.requestInterceptor = None]
UseResponse(client, fn) == [client EXCEPT !.responseInterceptor = fn]

\* The functions a caller registers.
\*   addHeader: cfg => ({ ...cfg, headers: { ...cfg.headers, 'X-Trace': 'intercepted' } })
\*   rewrite:   cfg => ({ method: 'PUT' })
RequestInterceptors == {"addHeader", "rewrite"}
ApplyRequestInterceptor(fn, cfg) ==
  IF fn = "addHeader" THEN [cfg EXCEPT !.headers["X-Trace"] = "intercepted"]
  ELSE [NoCfg EXCEPT !.method = "PUT"]
\*   passthrough:   res => res
\*   readAndReturn: async res => { await res.text(); return res }
ResponseInterceptors == {"passthrough", "readAndReturn"}
ApplyResponseInterceptor(fn, res) ==
  IF fn = "passthrough" THEN res ELSE [res EXCEPT !.bodyUsed = TRUE]

\* How the interceptor's own read of its argument can end: one that hands
\* the response through reads nothing.
InterceptorReads(fn) == IF fn = "passthrough" THEN {"none"} ELSE {"ok", "failed"}

\* Response.clone(): a second envelope with the same status and an
\* independent, unread copy of the body
Clone(res) == [res EXCEPT !.clone = TRUE, !.bodyUsed = FALSE]
\* Fetcher.ts:127  what handleResponse hands to the response interceptor
InterceptorArgument(res) == Clone(res)
\* Fetcher.ts:127  the promise the (async) response interceptor returns for
\* response `res`
InterceptorOutcome(fn, res, read) ==
  IF read = "failed" THEN Rejected(BodyReadErr(InterceptorArgument(res)))
  ELSE Resolved(ApplyResponseInterceptor(fn, InterceptorArgument(res)))
\* Fetcher.ts:415  response.blob(): reading marks the body as used; a
\* response whose body is null gives an empty Blob and stays unused.
BlobOf(res) == [res EXCEPT !.tag = "blob", !.name = "Blob", !.bodyUsed = res.hasBody]

\* What a caller can pass to the constructor and to one call.
DefaultHeaderChoices ==
  {NoHeaders, [n \in HeaderNames |-> "default"]}
CallHeaderChoices ==
  {NoHeaders, [n \in HeaderNames |-> CASE n = "Authorization" -> "call"
                                      [] n = "Content-Type" -> "text/plain"
                                      [] OTHER -> Absent]}
ConstructorOptions ==
  [baseURL : {"https://api.example.com"}, timeout : {Undefined, 0, MaxTimeout}, retries : {Undefined, MaxFetchRetries + 1},
   headers : DefaultHeaderChoices, credentials : {Absent, "include"}]
CallConfigs ==
  [method : {"POST"}, headers : CallHeaderChoices, credentials : {Absent, "omit"},
   timeout : {Undefined, 0, 1}, retries : {Undefined, 0, 1}, body : {Absent}]
\* post(url, body, config) and put(url, body, config) are called with a config
\* that leaves the timeout and the retry bound to the client.
HelperConfigs == {c \in CallConfigs : c.timeout = Undefined /\ c.retries = Undefined}
Payloads == {"{ name: 'Test' }", "[1, 2]"}
JsonHelpers == {"post", "put"}
MethodHelpers == {"get", "delete"}
ClientOperations == {"request", "downloadWithProgress"} \cup JsonHelpers \cup MethodHelpers
ConfigsOf(op) == IF op \in JsonHelpers \cup MethodHelpers THEN HelperConfigs ELSE CallConfigs
PayloadsOf(op) == IF op \in JsonHelpers THEN Payloads ELSE {Absent}
\* What fetchTransport can settle with.
TransportOutcomes ==
  {Resolved(Resp(st, 1)) : st \in Statuses} \cup {Rejected(AbortErr(1)), Rejected(NetworkErr(1))}

InitClient ==
  /\ XhrIdle
  /\ ConcurrentIdle
  /\ RetryIdle
  /\ TimeoutIdle
  /\ TransportIdle
  /\ DownloadIdle
  /\ \E o \in ConstructorOptions :
       /\ c_client = Construct(o)
       /\ c_log = [NoLog EXCEPT !.options = o]
  /\ c_req = NoRequest

\* Fetcher.ts:93-95  api.interceptors.request.use(fn)
C_UseRequest ==
  /\ c_req.pc # "settled"
  /\ \E fn \in RequestInterceptors :
       /\ c_client' = UseRequest(c_client, fn)
       /\ c_log' = [c_log EXCEPT !.lastRequestUse = fn]
  /\ UNCHANGED c_req
  /\ UNCHANGED <<rvars, tvars, f_variant, f_net, f_timeout, f_retries, f_attempt, f_pc, f_atts,
                 f_out, f_clock, q_pc, q_out, hvars, dvars, xvars, kvars>>

\* Fetcher.ts:111-113  api.interceptors.response.use(fn)
C_UseResponse ==
  /\ c_req.pc # "settled"
  /\ \E fn \in ResponseInterceptors :
       /\ c_client' = UseResponse(c_client, fn)
       /\ c_log' = [c_log EXCEPT !.lastResponseUse = fn]
  /\ UNCHANGED c_req
  /\ UNCHANGED <<rvars, tvars, f_variant, f_net, f_timeout, f_retries, f_attempt, f_pc, f_atts,
                 f_out, f_clock, q_pc, q_out, hvars, dvars, xvars, kvars>>

\* The call hands its options to fetchTransport.
Dispatch(req, finalConfig) ==
  [req EXCEPT !.pc = "dispatched", !.finalConfig = finalConfig, !.running = None,
              !.sent = TransportOptions(c_client, req.requestConfig, finalConfig)]

\* Fetcher.ts:164-191 against 396-416: request(), and the helpers on it, run
\* the interceptors; downloadWithProgress calls the transport itself.
RunsInterceptors_Every(op) == TRUE
RunsInterceptors(op) == op # "downloadWithProgress"

\* Fetcher.ts:164-183  request(url, config) up to its first await;
\* Fetcher.ts:396-413  downloadWithProgress(url, onProgress, config) likewise;
\* Fetcher.ts:271-284, 317-330  post and put call request() with their config.
C_Call ==
  /\ c_req.pc = "idle"
  /\ \E op \in ClientOperations :
     \E config \in ConfigsOf(op), body \in PayloadsOf(op) :
       LET requestConfig == RequestConfig(c_client, op, config, body)
           req == [c_req EXCEPT !.op = op, !.config = config, !.payload = body,
                                !.requestConfig = requestConfig]
           merged == MergeRequest(c_client, requestConfig)
       IN IF ~RunsInterceptors(op)
            THEN /\ c_req' = Dispatch(req, DownloadConfig(c_client, config))
                 /\ c_log' = [c_log EXCEPT !.atDispatch = c_client.responseInterceptor]
          ELSE IF c_client.requestInterceptor # None
            THEN /\ c_req' = [req EXCEPT !.pc = "requestInterceptor", !.finalConfig = merged,
                                         !.running = c_client.requestInterceptor]
                 /\ c_log' = [c_log EXCEPT !.given = merged,
                                           !.ranRequest = Append(@, c_client.requestInterceptor)]
          ELSE /\ c_req' = Dispatch(req, merged)
               /\ c_log' = [c_log EXCEPT !.atDispatch = c_client.responseInterceptor]
  /\ UNCHANGED c_client
  /\ UNCHANGED <<rvars, tvars, f_variant, f_net, f_timeout, f_retries, f_attempt, f_pc, f_atts,
                 f_out, f_clock, q_pc, q_out, hvars, dvars, xvars, kvars>>

\* Fetcher.ts:172-183  `finalConfig = await this.requestInterceptor(finalConfig)`
\* resumes and the transport is called.
C_RequestInterceptorReturns ==
  /\ c_req.pc = "requestInterceptor"
  /\ LET returned == ApplyRequestInterceptor(c_req.running, c_req.finalConfig) IN
       /\ c_req' = Dispatch(c_req, returned)
       /\ c_log' = [c_log EXCEPT !.returned = returned,
                                 !.atDispatch = c_client.responseInterceptor]
  /\ UNCHANGED c_client
  /\ UNCHANGED <<rvars, tvars, f_variant, f_net, f_timeout, f_retries, f_attempt, f_pc, f_atts,
                 f_out, f_clock, q_pc, q_out, hvars, dvars, xvars, kvars>>

\* fetchTransport.ts:75-79 with utils.ts:9-24  the transport starts an attempt:
\* the first when it is called, the next after an attempt failed, while the
\* number of attempts is at most retries + 1.
C_TransportAttempt ==
  /\ c_req.pc = "dispatched"
  /\ c_req.attempts < c_req.sent.retries + 1
  /\ c_req' = [c_req EXCEPT !.attempts = @ + 1]
  /\ UNCHANGED <<c_client, c_log>>
  /\ UNCHANGED <<rvars, tvars, f_variant, f_net, f_timeout, f_retries, f_attempt, f_pc, f_atts,
                 f_out, f_clock, q_pc, q_out, hvars, dvars, xvars, kvars>>

\* utils.ts:9-24  the transport resolves with the response of an attempt, and
\* rejects with the error of the last attempt the retry bound allows.
CanSettle(req, out) ==
  /\ req.attempts >= 1
  /\ out.st = "rejected" => req.attempts = req.sent.retries + 1

\* Fetcher.ts:125-130, 184  handleResponse runs on a response of the
\* transport only; the interceptor it runs, None when it runs none.
HandleResponse_OnFailureToo(client, out) == client.responseInterceptor
HandleResponse(client, out) ==
  IF out.st = "resolved" THEN client.responseInterceptor ELSE None

\* Fetcher.ts:238-241, 285, 331, 365  a helper that got a response from
\* request() reads its body (`await response.text()`, `return response.json()`)
\* and settles when the body has arrived; a body already used fails the read
\* at once, and the caller of request() itself reads nothing.
AwaitsBody(op, requestOut) ==
  /\ op \in JsonHelpers \cup MethodHelpers
  /\ requestOut.st = "resolved"
  /\ ~requestOut.val.bodyUsed
\* The call after request() has settled with `requestOut`.
AfterRequest(req, requestOut) ==
  IF AwaitsBody(req.op, requestOut)
    THEN [req EXCEPT !.pc = "reading", !.running = None, !.requestOut = requestOut]
    ELSE [req EXCEPT !.pc = "settled", !.running = None, !.requestOut = requestOut,
                     !.out = ClientResult(req.op, requestOut)]

\* Fetcher.ts:125-130,184-190  request() resumes after `await fetchTransport`;
\* Fetcher.ts:415  downloadWithProgress resumes and returns response.blob().
C_TransportSettles ==
  /\ c_req.pc = "dispatched"
  /\ \E out \in {o \in TransportOutcomes : CanSettle(c_req, o)} :
       IF ~RunsInterceptors(c_req.op)
         THEN /\ c_req' = [c_req EXCEPT !.pc = "settled", !.response = out,
                             !.out = IF out.st = "resolved" THEN Resolved(BlobOf(out.val)) ELSE out]
              /\ UNCHANGED c_log
       ELSE IF HandleResponse(c_client, out) # None
         THEN /\ c_req' = [c_req EXCEPT !.pc = "responseInterceptor", !.response = out,
                                        !.running = HandleResponse(c_client, out)]
              /\ c_log' = [c_log EXCEPT !.ranResponse = Append(@, c_client.responseInterceptor)]
       ELSE /\ c_req' = AfterRequest([c_req EXCEPT !.response = out], RequestResult(out))
            /\ UNCHANGED c_log
  /\ UNCHANGED c_client
  /\ UNCHANGED <<rvars, tvars, f_variant, f_net, f_timeout, f_retries, f_attempt, f_pc, f_atts,
                 f_out, f_clock, q_pc, q_out, hvars, dvars, xvars, kvars>>

\* Fetcher.ts:127  `return await this.responseInterceptor(response.clone())`
\* resumes: what the interceptor returned is what request() resolves with.
\* An interceptor that reads the clone rejects when the read fails; request()
\* returns handleResponse's promise without awaiting it (Fetcher.ts:184), so
\* its catch does not see that error and request() rejects with it unchanged.
C_ResponseInterceptorReturns ==
  /\ c_req.pc = "responseInterceptor"
  /\ \E read \in InterceptorReads(c_req.running) :
       c_req' = AfterRequest(c_req,
                  InterceptorOutcome(c_req.running, c_req.response.val, read))
  /\ UNCHANGED <<c_client, c_log>>
  /\ UNCHANGED <<rvars, tvars, f_variant, f_net, f_timeout, f_retries, f_attempt, f_pc, f_atts,
                 f_out, f_clock, q_pc, q_out, hvars, dvars, xvars, kvars>>

\* Fetcher.ts:238-241, 285, 331, 365  the body of the response has arrived,
\* or its stream has failed: the helper's read of it settles and the helper
\* returns or throws.
C_BodyArrives ==
  /\ c_req.pc = "reading"
  /\ \E read \in {"ok", "failed"} :
       c_req' = [c_req EXCEPT !.pc = "settled",
                              !.out = IF read = "failed"
                                        THEN Rejected(BodyReadErr(c_req.requestOut.val))
                                        ELSE ClientResult(c_req.op, c_req.requestOut)]
  /\ UNCHANGED <<c_client, c_log>>
  /\ UNCHANGED <<rvars, tvars, f_variant, f_net, f_timeout, f_retries, f_attempt, f_pc, f_atts,
                 f_out, f_clock, q_pc, q_out, hvars, dvars, xvars, kvars>>

NextClient ==
  \/ C_UseRequest \/ C_UseResponse \/ C_Call \/ C_RequestInterceptorReturns
  \/ C_TransportAttempt \/ C_TransportSettles \/ C_ResponseInterceptorReturns
  \/ C_BodyArrives

SpecClient == InitClient /\ [][NextClient]_vars

(* ------------------- download with a progress callback ---------------- *)
\* fetchTransport.ts:50-51  Number(response.headers.get('Content-Length')) || null
\* (headers.get gives null for an absent header, and Number(null) is 0)
ContentLengthOf(header) ==
  LET n == IF header = Undefined THEN 0 ELSE header
  IN IF n = 0 THEN Null ELSE n

\* fetchTransport.ts:48-53  the loop starts: reader, contentLength, received = 0, chunks = []
StartReading(a, resp) ==
  [a EXCEPT !.net = Resolved(resp),
            !.dl = [NoDownload EXCEPT !.state = "reading",
                                      !.total = ContentLengthOf(resp.contentLength)]]

\* the next `len` bytes of the body; a byte is named by its position in the body
Slice(from, len) == [k \in 1..len |-> from + k]

\* fetchTransport.ts:60  received += value.length
ReceivedAfter_NotCumulative(received, value) == Len(value)
ReceivedAfter(received, value) == received + Len(value)

\* fetchTransport.ts:58-60  chunks.push(value); received += value.length
ReadChunk(dl, value) ==
  [dl EXCEPT !.sent = @ + Len(value), !.chunks = Append(@, value),
             !.received = ReceivedAfter(@, value)]

\* fetchTransport.ts:61  onDownloadProgress(received, contentLength)
ProgressCall(i, dl) == [att |-> i, loaded |-> dl.received, total |-> dl.total]

\* fetchTransport.ts:65  new Blob(chunks)
RECURSIVE Blob(_)
Blob(chunks) == IF chunks = <<>> THEN <<>> ELSE Head(chunks) \o Blob(Tail(chunks))

\* fetchTransport.ts:66-70  new Response(blob, { status, statusText, headers })
NewResponse_StatusOnly(blob, response) ==
  [NoVal EXCEPT !.tag = "resp", !.name = "Response", !.status = response.status,
                !.hasBody = TRUE, !.bytes = blob, !.att = response.att]
NewResponse(blob, response) ==
  [NoVal EXCEPT !.tag = "resp", !.name = "Response", !.status = response.status,
                !.statusText = response.statusText, !.contentLength = response.contentLength,
                !.hasBody = TRUE, !.bytes = blob, !.att = response.att]

\* The promise of the invocation settles with `res` after the loop.
\*   A: fetchTransport.ts:66-76  return / throw, then finally clears the timer
\*   B: index.ts:93-103          the promise handed to withTimeout settles
AttemptAfterLoop(variant, a, res, state, result) ==
  LET w2 == IF variant = "A" THEN FP_Finally(a.w, res)
            ELSE IF res.st = "resolved" THEN WT_OnFulfilled(a.w, res.val)
            ELSE WT_OnRejected(a.w, res.val)
  IN [a EXCEPT !.w = w2, !.first = IF @ = "none" THEN "op" ELSE @,
               !.dl.state = state, !.dl.result = result]

\* The options of a download, the lengths of the chunks the stream delivers
\* and what fetch can resolve with.
DownloadTimeouts == {Undefined, 1}
DownloadRetries == {0, 1}
ChunkLengths == {0, 1, MaxChunkLen}
ContentLengths == {Undefined, 0, MaxChunkLen}
DownloadResp(status, i, hasBody, header) ==
  [Resp(status, i) EXCEPT !.body = "", !.hasBody = hasBody, !.contentLength = header]

\* Fetcher.ts:396-413  downloadWithProgress has called the transport with
\* onDownloadProgress, which is about to invoke fetchPromise.
InitDownload ==
  /\ XhrIdle
  /\ ConcurrentIdle
  /\ RetryIdle
  /\ TimeoutIdle
  /\ ClientIdle
  /\ f_variant \in {"A", "B"}
  /\ f_net = "live"
  /\ f_timeout \in DownloadTimeouts
  /\ f_retries \in DownloadRetries
  /\ f_attempt = 0
  /\ f_pc = "call"
  /\ f_atts = <<>>
  /\ f_out = Pending
  /\ f_clock = 0
  /\ q_pc = "idle"
  /\ q_out = Pending
  /\ h_kind = "request"
  /\ h_pc = "idle"
  /\ h_out = Pending
  /\ h_read = "none"
  /\ d_pc = "awaiting"
  /\ d_calls = <<>>
  /\ d_out = Pending

\* fetchTransport.ts:46-53  fetch resolves; with a body (and, in index.ts:72,
\* an ok status) the progress loop starts, otherwise the invocation settles.
D_NetResolve ==
  /\ f_net = "live"
  /\ \E i \in 1..Len(f_atts) :
       /\ f_atts[i].net = Pending
       /\ \E st \in Statuses, hasBody \in BOOLEAN, header \in ContentLengths :
            LET resp == DownloadResp(st, i, hasBody, header) IN
            IF hasBody /\ FP_Result(f_variant, resp, i).st = "resolved"
              THEN /\ f_atts' = [f_atts EXCEPT ![i] = StartReading(f_atts[i], resp)]
                   /\ UNCHANGED <<f_variant, f_net, f_timeout, f_retries, f_attempt, f_pc, f_out,
                                  f_clock, q_pc, q_out>>
                   /\ UNCHANGED <<rvars, tvars, hvars, cvars, dvars, xvars, kvars>>
              ELSE NetSettles(i, Resolved(resp))

\* fetchTransport.ts:55-62  reader.read() gives a chunk: it is pushed, counted
\* and reported.
D_ReadChunk ==
  /\ \E i \in 1..Len(f_atts) :
       /\ f_atts[i].dl.state = "reading"
       /\ ~f_atts[i].signal
       /\ Len(d_calls) < MaxChunks
       /\ \E len \in ChunkLengths :
            LET dl2 == ReadChunk(f_atts[i].dl, Slice(f_atts[i].dl.sent, len)) IN
            /\ f_atts' = [f_atts EXCEPT ![i].dl = dl2]
            /\ d_calls' = Append(d_calls, ProgressCall(i, dl2))
  /\ UNCHANGED <<f_variant, f_net, f_timeout, f_retries, f_attempt, f_pc, f_out, f_clock, q_pc, q_out>>
  /\ UNCHANGED <<rvars, tvars, hvars, cvars, d_pc, d_out, xvars, kvars>>

\* the loop of invocation i ends and its promise settles with `res`
LoopSettles(i, res, state, result) ==
  LET a2 == AttemptAfterLoop(f_variant, f_atts[i], res, state, result) IN
  /\ f_atts' = [f_atts EXCEPT ![i] = a2]
  /\ FSet(RetryResume(FState, i, f_atts[i].w.race, a2.w.race))
  /\ UNCHANGED <<f_variant, f_net, f_timeout, f_retries, f_clock, q_pc, q_out>>
  /\ UNCHANGED <<rvars, tvars, hvars, cvars, dvars, xvars, kvars>>

\* fetchTransport.ts:56-57,65-70  reader.read() reports done: the Response is
\* rebuilt from the chunks and returned.
D_ReadDone ==
  \E i \in 1..Len(f_atts) :
    /\ f_atts[i].dl.state = "reading"
    /\ ~f_atts[i].signal
    /\ LET result == NewResponse(Blob(f_atts[i].dl.chunks), f_atts[i].net.val)
       IN LoopSettles(i, Resolved(result), "done", result)

\* fetchTransport.ts:56  reader.read() rejects: the connection broke
D_ReadFail ==
  \E i \in 1..Len(f_atts) :
    /\ f_atts[i].dl.state = "reading"
    /\ ~f_atts[i].signal
    /\ LoopSettles(i, Rejected(NetworkErr(i)), "failed", NoVal)

\* fetchTransport.ts:42,56  the signal handed to fetch is aborted: the body
\* stream is errored and reader.read() rejects with the AbortError
D_ReadAbort ==
  \E i \in 1..Len(f_atts) :
    /\ f_atts[i].dl.state = "reading"
    /\ f_atts[i].signal
    /\ LoopSettles(i, Rejected(AbortErr(i)), "failed", NoVal)

\* Fetcher.ts:401-415  downloadWithProgress resumes after `await
\* fetchTransport(...)` and returns response.blob(); there is no catch.
D_Settle ==
  /\ d_pc = "awaiting"
  /\ f_pc = "done"
  /\ d_out' = IF f_out.st = "resolved" THEN Resolved(BlobOf(f_out.val)) ELSE f_out
  /\ d_pc' = "settled"
  /\ UNCHANGED d_calls
  /\ UNCHANGED <<f_variant, f_net, f_timeout, f_retries, f_attempt, f_pc, f_atts, f_out, f_clock,
                 q_pc, q_out>>
  /\ UNCHANGED <<rvars, tvars, hvars, cvars, xvars, kvars>>

NextDownload ==
  \/ F_Attempt \/ D_NetResolve \/ F_NetReject \/ F_NetAbort \/ F_Tick \/ F_TimerFire
  \/ D_ReadChunk \/ D_ReadDone \/ D_ReadFail \/ D_ReadAbort \/ D_Settle

SpecDownload == InitDownload /\ [][NextDownload]_vars

(* ---------------- the legacy transport: xhrTransport ------------------- *)
MaxEvents == 3

\* Headers normalises the name of a header to lower case.
Lower(name) ==
  CASE name = "Content-Type" -> "content-type"
    [] name = "Content-Length" -> "content-length"
    [] name = "X-Note" -> "x-note"
    [] OTHER -> name

\* xhrTransport.ts:68-79  getAllResponseHeaders().trim().split(/[\r\n]+/) is
\* the sequence of lines `raw`; a line is the sequence of the pieces that
\* line.split(": ") yields.  The first piece is the key, a line with an empty
\* key is skipped, the value is the remaining pieces joined by ": " (kept here
\* as the sequence of those pieces).
RECURSIVE ParseHeaders(_)
ParseHeaders(raw) ==
  IF raw = <<>> THEN <<>>
  ELSE LET parts == Head(raw)
           key == Head(parts) IN
       IF key = "" THEN ParseHeaders(Tail(raw))
       ELSE <<[name |-> Lower(key), value |-> Tail(parts)]>> \o ParseHeaders(Tail(raw))

\* The values the transport's promise settles with.
XNoVal == [tag |-> None, name |-> "", msg |-> "", status |-> 0, statusText |-> "",
           headers |-> <<>>, body |-> ""]
XhrError(msg) == [XNoVal EXCEPT !.tag = "err", !.name = "Error", !.msg = msg]
XhrTypeError(msg) == [XNoVal EXCEPT !.tag = "err", !.name = "TypeError", !.msg = msg]

\* new Response(body, { headers }): when the headers given have no
\* Content-Type, the constructor adds the one it derives from the body; the
\* bodies here are strings, whose type is text/plain;charset=UTF-8.
HasHeader(headers, name) == \E k \in 1..Len(headers) : headers[k].name = name
ResponseHeaders(headers, body) ==
  IF HasHeader(headers, "content-type") THEN headers
  ELSE Append(headers, [name |-> "content-type", value |-> <<"text/plain;charset=UTF-8">>])

\* The statuses with which a Response must have no body.
NullBodyStatuses == {101, 103, 204, 205, 304}
\* xhrTransport.ts:81-87  new Response(xhr.response, { status, statusText, headers }).
\* xhr.response is never null after a load (responseType is "blob"), and the
\* constructor throws a RangeError for a status outside 200..599 and a
\* TypeError for a body given with a null-body status.
XhrResponse(ev) ==
  IF ev.status < 200 \/ ev.status > 599 \/ ev.status \in NullBodyStatuses
    THEN [thrown |-> TRUE, val |-> XNoVal]
  ELSE [thrown |-> FALSE,
        val |-> [XNoVal EXCEPT !.tag = "resp", !.name = "Response", !.status = ev.status,
                               !.statusText = ev.statusText,
                               !.headers = ResponseHeaders(ParseHeaders(ev.raw), ev.response),
                               !.body = ev.response]]

\* resolve / reject of the promise: only the first call settles it
XSettle(out, settled) == IF out.st = "pending" THEN settled ELSE out

\* xhrTransport.ts:67-88  xhr.onload
OnLoad(out, ev) ==
  LET r == XhrResponse(ev) IN IF r.thrown THEN out ELSE XSettle(out, Resolved(r.val))
\* xhrTransport.ts:90  xhr.onerror
OnError(out) == XSettle(out, Rejected(XhrError("XHR Network Error")))
\* xhrTransport.ts:91  xhr.ontimeout
OnTimeout(out) == XSettle(out, Rejected(XhrError("XHR Timeout")))

\* xhrTransport.ts:42-43  new XMLHttpRequest(); xhr.open(method, url, true)
Open(xhr, method) == [xhr EXCEPT !.method = method, !.calls = Append(@, "open")]
\* xhrTransport.ts:45-47
SetCredentials(xhr, options) ==
  IF options.credentials = "include"
    THEN [xhr EXCEPT !.withCredentials = TRUE, !.calls = Append(@, "withCredentials")]
  ELSE xhr
\* xhrTransport.ts:49-51
SetTimeout(xhr, timeout) ==
  IF Falsy(timeout) THEN xhr
  ELSE [xhr EXCEPT !.timeout = timeout, !.calls = Append(@, "timeout")]
\* xhrTransport.ts:53-55
SetHeaders(xhr, headers) ==
  IF \A n \in HeaderNames : headers[n] = Absent THEN xhr
  ELSE [xhr EXCEPT !.requestHeaders = headers, !.calls = Append(@, "setRequestHeader")]
\* xhrTransport.ts:57
SetResponseType(xhr) == [xhr EXCEPT !.responseType = "blob", !.calls = Append(@, "responseType")]
\* xhrTransport.ts:59-61
InstallDownload(xhr, options) ==
  IF options.onDownloadProgress
    THEN [xhr EXCEPT !.onprogress = TRUE, !.calls = Append(@, "onprogress")]
  ELSE xhr
\* xhrTransport.ts:63-65  an assignment to xhr.upload.onprogress throws a
\* TypeError when xhr.upload is undefined
InstallUpload_Unguarded(xhr, options) ==
  IF ~options.onUploadProgress THEN xhr
  ELSE IF xhr.upload
    THEN [xhr EXCEPT !.uploadOnprogress = TRUE, !.calls = Append(@, "upload.onprogress")]
  ELSE [xhr EXCEPT !.threw = TRUE]
InstallUpload(xhr, options) ==
  IF options.onUploadProgress /\ xhr.upload
    THEN [xhr EXCEPT !.uploadOnprogress = TRUE, !.calls = Append(@, "upload.onprogress")]
  ELSE xhr
\* xhrTransport.ts:67-91
InstallTerminal(xhr) ==
  [xhr EXCEPT !.onload = TRUE, !.onerror = TRUE, !.ontimeout = TRUE,
              !.calls = @ \o <<"onload", "onerror", "ontimeout">>]
\* xhrTransport.ts:93  xhr.send(body ?? null)
Send(xhr, body) ==
  [xhr EXCEPT !.sent = TRUE, !.body = IF body = Absent THEN "null" ELSE body,
              !.calls = Append(@, "send")]

\* xhrTransport.ts:41-94  the executor of the promise; a statement that
\* throws ends it.
Executor_SendBeforeHandlers(options, hasUpload) ==
  LET x0 == [NoXhr EXCEPT !.upload = hasUpload]
      x1 == SetResponseType(SetHeaders(SetTimeout(SetCredentials(Open(x0, options.method),
                                                                 options),
                                                  options.timeout),
                                       options.headers))
      x2 == InstallUpload(InstallDownload(x1, options), options)
  IN IF x2.threw THEN x2 ELSE InstallTerminal(Send(x2, options.body))
Executor(options, hasUpload) ==
  LET x0 == [NoXhr EXCEPT !.upload = hasUpload]
      x1 == SetResponseType(SetHeaders(SetTimeout(SetCredentials(Open(x0, options.method),
                                                                 options),
                                                  options.timeout),
                                       options.headers))
      x2 == InstallUpload(InstallDownload(x1, options), options)
  IN IF x2.threw THEN x2 ELSE Send(InstallTerminal(x2), options.body)
\* The promise after the executor has run: a throw in it rejects the promise.
AfterExecutor(xhr) ==
  IF xhr.threw
    THEN Rejected(XhrTypeError("Cannot set properties of undefined (setting 'onprogress')"))
  ELSE Pending

\* Fetcher.ts:442-460  the options postWithUploadProgress hands to xhrTransport
UploadOptions(client, config, body) ==
  [NoXhrOptions EXCEPT !.op = "postWithUploadProgress", !.method = "POST",
                       !.headers = MergeHeaders(client.headers, config.headers),
                       !.body = body,
                       !.timeout = Nullish(config.timeout, client.timeout),
                       !.onUploadProgress = TRUE]
\* Fetcher.ts:459  `return response.json()`: the promise of the parsed body,
\* rejected with a SyntaxError when the body is not JSON.
XJson(res) ==
  IF res.body \in JsonTexts
    THEN Resolved([res EXCEPT !.tag = "json", !.name = "parsed body"])
    ELSE Rejected([XNoVal EXCEPT !.tag = "err", !.name = "SyntaxError",
                                 !.msg = "Unexpected token in JSON", !.body = res.body])
\* What the caller's promise settles with once the transport's has.
CallerResult(op, out) ==
  IF op = "postWithUploadProgress" /\ out.st = "resolved" THEN XJson(out.val)
  ELSE out

\* What a caller can pass, and what the primitive can deliver.
XhrOperations == {"xhrTransport", "postWithUploadProgress"}
XhrOptionChoices ==
  {[NoXhrOptions EXCEPT !.op = "xhrTransport", !.method = "POST", !.headers = h, !.body = b,
                        !.timeout = t, !.credentials = c,
                        !.onDownloadProgress = d, !.onUploadProgress = u] :
     h \in CallHeaderChoices, b \in {Absent, "payload"}, t \in {Undefined, MaxTimeout},
     c \in {Absent, "include"}, d \in BOOLEAN, u \in BOOLEAN}
UploadConfigs ==
  {c \in CallConfigs : c.retries = Undefined /\ c.timeout \in {Undefined, 1}}
XhrClientOptions ==
  {o \in ConstructorOptions : o.timeout # 0}
\* The interceptors registered on the client before the upload is started.
Registered(client, log, fn, gn) ==
  [client |-> UseResponse(UseRequest(client, fn), gn),
   log |-> [log EXCEPT !.lastRequestUse = fn, !.lastResponseUse = gn]]
ProgressEvents ==
  {[NoEvent EXCEPT !.type = ty, !.loaded = l, !.total = 2] :
     ty \in {"progress", "upload.progress"}, l \in {1, 2}}
LoadEvents ==
  { [NoEvent EXCEPT !.type = "load", !.status = 200, !.statusText = "OK",
                    !.raw = << <<"Content-Type", "application/json">> >>,
                    !.response = "{\"ok\":true}"],
    [NoEvent EXCEPT !.type = "load", !.status = 204, !.statusText = "No Content",
                    !.raw = << <<"">> >>],
    [NoEvent EXCEPT !.type = "load", !.status = 500, !.statusText = "Server Error",
                    !.raw = << <<"X-Note", "a", "b">>, <<"Content-Length", "5">> >>,
                    !.response = "oops!"] }
TerminalTypes == {"load", "error", "timeout"}
IsTerminal(ev) == ev.type \in TerminalTypes
Terminals(events) == SelectSeq(events, IsTerminal)

InitXhr ==
  /\ RetryIdle
  /\ TimeoutIdle
  /\ TransportIdle
  /\ DownloadIdle
  /\ ConcurrentIdle
  /\ \E op \in XhrOperations :
       /\ x_opts = [NoXhrOptions EXCEPT !.op = op]
       /\ \E o \in IF op = "xhrTransport" THEN {NoOptions} ELSE XhrClientOptions,
             use \in IF op = "xhrTransport" THEN {FALSE} ELSE BOOLEAN :
            LET client == Construct(o)
                log == [NoLog EXCEPT !.options = o]
                reg == Registered(client, log, "addHeader", "readAndReturn")
            IN /\ c_client = IF use THEN reg.client ELSE client
               /\ c_log = IF use THEN reg.log ELSE log
  /\ c_req = NoRequest
  /\ x_pc = "start"
  /\ x_xhr = NoXhr
  /\ x_events = <<>>
  /\ x_up = <<>>
  /\ x_down = <<>>
  /\ x_out = Pending
  /\ x_result = Pending

\* The transport is called: the executor runs to its end.
Started(options) ==
  \E hasUpload \in BOOLEAN :
    LET xhr == Executor(options, hasUpload) IN
      /\ x_opts' = options
      /\ x_xhr' = xhr
      /\ x_out' = AfterExecutor(xhr)
      /\ x_pc' = "awaiting"

\* xhrTransport.ts:30-95  xhrTransport(options), called directly
X_Transport ==
  /\ x_pc = "start" /\ x_opts.op = "xhrTransport"
  /\ \E options \in XhrOptionChoices : Started(options)
  /\ UNCHANGED <<x_events, x_up, x_down, x_result>>
  /\ UNCHANGED nvars

\* Fetcher.ts:442-458  postWithUploadProgress(url, body, onUploadProgress, config)
\* up to its await
X_PostWithUploadProgress ==
  /\ x_pc = "start" /\ x_opts.op = "postWithUploadProgress"
  /\ \E config \in UploadConfigs : Started(UploadOptions(c_client, config, "FormData"))
  /\ UNCHANGED <<x_events, x_up, x_down, x_result>>
  /\ UNCHANGED nvars

\* The event handed to a progress callback is the primitive's event object.
Deliver(installed, log, ev) == IF installed THEN Append(log, ev) ELSE log

\* The primitive emits a progress event on xhr.upload.
X_UploadProgress ==
  /\ x_xhr.sent /\ x_xhr.upload
  /\ Terminals(x_events) = <<>> /\ Len(x_events) < MaxEvents
  /\ \E ev \in {e \in ProgressEvents : e.type = "upload.progress"} :
       /\ x_events' = Append(x_events, ev)
       /\ x_up' = Deliver(x_xhr.uploadOnprogress, x_up, ev)
  /\ UNCHANGED <<x_pc, x_opts, x_xhr, x_down, x_out, x_result>>
  /\ UNCHANGED nvars

\* The primitive emits a progress event on xhr.
X_DownloadProgress ==
  /\ x_xhr.sent
  /\ Terminals(x_events) = <<>> /\ Len(x_events) < MaxEvents
  /\ \E ev \in {e \in ProgressEvents : e.type = "progress"} :
       /\ x_events' = Append(x_events, ev)
       /\ x_down' = Deliver(x_xhr.onprogress, x_down, ev)
  /\ UNCHANGED <<x_pc, x_opts, x_xhr, x_up, x_out, x_result>>
  /\ UNCHANGED nvars

\* xhrTransport.ts:67-88  the primitive delivers a load event; an exception
\* thrown by the handler is reported by the host and settles nothing.
X_Load ==
  /\ x_xhr.sent /\ Len(x_events) < MaxEvents
  /\ \E ev \in LoadEvents :
       /\ x_events' = Append(x_events, ev)
       /\ x_out' = OnLoad(x_out, ev)
       /\ x_xhr' = IF XhrResponse(ev).thrown THEN [x_xhr EXCEPT !.uncaught = @ + 1] ELSE x_xhr
  /\ UNCHANGED <<x_pc, x_opts, x_up, x_down, x_result>>
  /\ UNCHANGED nvars

\* xhrTransport.ts:90  the primitive delivers an error event
X_Error ==
  /\ x_xhr.sent /\ Len(x_events) < MaxEvents
  /\ x_events' = Append(x_events, [NoEvent EXCEPT !.type = "error"])
  /\ x_out' = OnError(x_out)
  /\ UNCHANGED <<x_pc, x_opts, x_xhr, x_up, x_down, x_result>>
  /\ UNCHANGED nvars

\* xhrTransport.ts:91  the primitive delivers a timeout event
X_Timeout ==
  /\ x_xhr.sent /\ Len(x_events) < MaxEvents
  /\ x_events' = Append(x_events, [NoEvent EXCEPT !.type = "timeout"])
  /\ x_out' = OnTimeout(x_out)
  /\ UNCHANGED <<x_pc, x_opts, x_xhr, x_up, x_down, x_result>>
  /\ UNCHANGED nvars

\* The caller's `await` resumes: Fetcher.ts:459 for postWithUploadProgress.
X_Resume ==
  /\ x_pc = "awaiting" /\ x_out.st # "pending"
  /\ x_pc' = "done"
  /\ x_result' = CallerResult(x_opts.op, x_out)
  /\ UNCHANGED <<x_opts, x_xhr, x_events, x_up, x_down, x_out>>
  /\ UNCHANGED nvars

NextXhr ==
  \/ X_Transport \/ X_PostWithUploadProgress
  \/ X_UploadProgress \/ X_DownloadProgress
  \/ X_Load \/ X_Error \/ X_Timeout
  \/ X_Resume

SpecXhr == InitXhr /\ [][NextXhr]_vars

(* A client on which the caller starts one operation, through request() or
   downloadWithProgress (the fetch transport) or through
   postWithUploadProgress (the legacy transport). *)
InitProgress == InitClient \/ InitXhr
NextProgress ==
  \/ x_pc = "idle" /\ NextClient
  \/ NextXhr
SpecProgress == InitProgress /\ [][NextProgress]_vars

(* ---------------- concurrent requests on one client -------------------- *)
\* The timeouts and retry bounds request() hands to the transport
\* (Fetcher.ts:181-182).
ConcurrentTimeouts == {Undefined, 1}
ConcurrentRetries == {0, 1}
\* What fetch settles with on its own.
ConcurrentNetOutcomes(n) ==
  {Resolved(Resp(st, n)) : st \in Statuses} \cup {Rejected(NetworkErr(n))}

\* fetchTransport.ts:26-32, utils.ts:9-13  every call of fetchTransport is an
\* activation of its own: `fetchPromise`, the `controller` and `timeoutId`
\* of each invocation of it, and the `attempt` of withRetries are locals.
\* Scope(i) is the activation the i-th call of request() works on.
Scope_Shared(i) == 1
Scope(i) == i

\* The invocations of fetch made for request i: <<activation, index>>.
Owned(i) ==
  {<<c, n>> \in Requests \X (1..(MaxFetchRetries + 2)) :
     n <= Len(k_act[c].atts) /\ k_act[c].atts[n].owner = i}

\* Two requests are about to be made on one client.
InitConcurrent ==
  /\ RetryIdle
  /\ TimeoutIdle
  /\ ClientIdle
  /\ DownloadIdle
  /\ XhrIdle
  /\ TransportQuiet
  /\ f_variant \in {"A", "B"}
  /\ k_req \in [Requests -> {[NoCall EXCEPT !.timeout = t, !.retries = r] :
                               t \in ConcurrentTimeouts, r \in ConcurrentRetries}]
  /\ k_act = [c \in Requests |-> NoActivation]

\* Fetcher.ts:176-183  request() calls fetchTransport({url, config, timeout, retries})
K_Request ==
  \E i \in Requests :
    /\ k_req[i].pc = "idle"
    /\ k_req' = [k_req EXCEPT ![i].pc = "dispatched"]
    /\ k_act' = [k_act EXCEPT ![Scope(i)] =
                   [NoActivation EXCEPT !.timeout = k_req[i].timeout,
                                        !.retries = k_req[i].retries, !.pc = "call"]]
    /\ UNCHANGED nvars_k

\* utils.ts:16  withRetries of request i invokes fetchPromise: a new attempt
\* with a controller and a timer of its own.
K_Attempt ==
  \E i \in Requests :
    LET act == k_act[Scope(i)]
        n == Len(act.atts) + 1
    IN /\ k_req[i].pc = "dispatched"
       /\ act.pc = "call"
       /\ k_act' = [k_act EXCEPT ![Scope(i)] =
                      [act EXCEPT !.pc = "await",
                                  !.atts = Append(@, [owner |-> i]
                                                     @@ NewAttempt(f_variant, act.timeout, n))]]
       /\ k_req' = [k_req EXCEPT ![i].started = @ + 1]
       /\ UNCHANGED nvars_k

\* utils.ts:15-22  withRetries of the activation resumes when the promise of
\* its latest attempt settles.
ActivationResume(act, n, before, after) ==
  IF act.pc = "await" /\ n = Len(act.atts) /\ before.st = "pending" /\ after.st # "pending"
    THEN IF after.st = "resolved" THEN OnFulfilled(act, after.val)
         ELSE OnRejected(act, after.val)
    ELSE act

\* attempt n of activation c becomes a2
AttemptBecomes(c, n, a2) ==
  LET act == [k_act[c] EXCEPT !.atts[n] = a2] IN
  /\ k_act' = [k_act EXCEPT ![c] =
                 ActivationResume(act, n, k_act[c].atts[n].w.race, a2.w.race)]
  /\ UNCHANGED k_req
  /\ UNCHANGED nvars_k

\* the fetch of an attempt resolves or rejects on its own
K_NetSettles ==
  \E c \in Requests : \E n \in 1..Len(k_act[c].atts) :
    /\ k_act[c].atts[n].net = Pending
    /\ \E out \in ConcurrentNetOutcomes(n) :
         AttemptBecomes(c, n, AttemptAfterNet(f_variant, k_act[c].atts[n], out, n))

\* the fetch of an attempt observes its aborted signal
K_NetAbort ==
  \E c \in Requests : \E n \in 1..Len(k_act[c].atts) :
    /\ k_act[c].atts[n].net = Pending
    /\ k_act[c].atts[n].signal
    /\ AttemptBecomes(c, n, AttemptAfterNet(f_variant, k_act[c].atts[n], Rejected(AbortErr(n)), n))

\* one unit of time passes: the time advances and every armed timer comes
\* one unit closer
K_Tick ==
  /\ \E c \in Requests : \E n \in 1..Len(k_act[c].atts) : TimerRunning(k_act[c].atts[n].w)
  /\ \A c \in Requests : \A n \in 1..Len(k_act[c].atts) : ~TimerDue(k_act[c].atts[n].w)
  /\ k_act' = [c \in Requests |->
                 [k_act[c] EXCEPT !.atts =
                    [n \in 1..Len(@) |->
                       IF @[n].w.timer = "armed" THEN [@[n] EXCEPT !.w = WT_Tick(@)] ELSE @[n]]]]
  /\ f_clock' = f_clock + 1
  /\ UNCHANGED k_req
  /\ UNCHANGED <<rvars, tvars, f_variant, f_net, f_timeout, f_retries, f_attempt, f_pc, f_atts,
                 f_out, q_pc, q_out, hvars, cvars, dvars, xvars>>

\* the timer of an attempt fires
K_TimerFire ==
  \E c \in Requests : \E n \in 1..Len(k_act[c].atts) :
    /\ TimerDue(k_act[c].atts[n].w)
    /\ AttemptBecomes(c, n, AttemptAfterTimer(f_variant, k_act[c].atts[n]))

\* Fetcher.ts:178-190  request i resumes after `await fetchTransport(...)`
K_Settle ==
  \E i \in Requests :
    /\ k_req[i].pc = "dispatched"
    /\ k_act[Scope(i)].pc = "done"
    /\ k_req' = [k_req EXCEPT ![i].pc = "settled",
                              ![i].out = RequestResult(k_act[Scope(i)].out)]
    /\ UNCHANGED k_act
    /\ UNCHANGED nvars_k

NextConcurrent ==
  \/ K_Request \/ K_Attempt \/ K_NetSettles \/ K_NetAbort
  \/ K_Tick \/ K_TimerFire \/ K_Settle

SpecConcurrent == InitConcurrent /\ [][NextConcurrent]_vars

(* ----------------------- claims on withRetries ------------------------- *)
Failed(a) == a.st \in {"rejected", "threw"}
NumFailed == Cardinality({i \in 1..Len(r_att) : Failed(r_att[i])})
AllFailed == \A i \in 1..Len(r_att) : Failed(r_att[i])
InFlight == {i \in 1..Len(r_att) : r_att[i].st = "pending"}

\* C1: when every invocation of the factory fails, withRetries(factory, n)
\* invokes it exactly n+1 times (never more, and it does not give up
\* earlier) and then rejects with exactly the error of invocation n+1.
C1_AlwaysFailing ==
  /\ Len(r_att) <= r_retries + 1
  /\ (r_pc = "done" /\ AllFailed) =>
        /\ Len(r_att) = r_retries + 1
        /\ r_out = Rejected(r_att[Len(r_att)].val)
        /\ r_out.val.att = r_retries + 1
  /\ (AllFailed /\ r_pc # "done") => r_out = Pending

\* C1 witness: a factory that failed on every one of its n+1 >= 2
\* invocations, and the call has rejected.
C1_Witness ==
  /\ r_pc = "done"
  /\ AllFailed
  /\ r_retries >= 1
  /\ Len(r_att) = r_retries + 1
  /\ r_out.st = "rejected"

\* C2: a factory that fails k <= n times and then succeeds makes the call
\* resolve with that value after exactly k+1 invocations; the factory is
\* not invoked after its first success, and the call never rejects while
\* fewer than n+1 invocations have failed.
C2_SucceedsAfterK ==
  /\ \A i \in 1..Len(r_att) :
        r_att[i].st = "resolved" =>
          /\ i = Len(r_att)
          /\ NumFailed = i - 1
          /\ i - 1 <= r_retries
          /\ r_pc = "done"
          /\ r_out = Resolved(r_att[i].val)
          /\ r_out.val.att = i
  /\ (r_out.st = "rejected") => NumFailed = r_retries + 1
  /\ (r_pc = "done") => r_out.st # "pending"

\* C2 witness: k = n >= 1 failures, then a success on invocation n+1.
C2_Witness ==
  /\ r_pc = "done"
  /\ r_retries >= 1
  /\ Len(r_att) = r_retries + 1
  /\ NumFailed = r_retries
  /\ r_out.st = "resolved"

\* C3: retries are strictly sequential: at most one invocation started by
\* withRetries is in flight, and an invocation is started only after every
\* earlier one has settled with a failure.
C3_Sequential ==
  /\ Cardinality(InFlight) <= 1
  /\ \A i \in 1..Len(r_att) : i < Len(r_att) => Failed(r_att[i])

(* ----------------------- claims on withTimeout ------------------------- *)
\* C4: withTimeout(op, undefined) and withTimeout(op, 0) behave as op
\* unwrapped: no timer is armed and no controller aborted, and the promise
\* returned is settled exactly when and how op is (same value, same error).
C4_NoTimeoutIsIdentity ==
  (t_pc = "called" /\ (t_ms = Undefined \/ t_ms = 0)) =>
     /\ t_w.timer = "none"
     /\ ~t_w.aborted
     /\ t_w.race = t_op

\* C4 witness: withTimeout(op, 0) was called and op has rejected.
C4_Witness ==
  /\ t_pc = "called"
  /\ t_ms = 0
  /\ t_op.st = "rejected"
  /\ t_w.race = t_op

\* C5: for d > 0 the promise returned settles with whichever event comes
\* first: op's own value or error when op settles before the timer fires,
\* and an Error 'Request timed out after d ms' when the timer fires first;
\* it is pending while neither has happened.
C5_FirstEventWins ==
  (t_pc = "called" /\ t_ms > 0) =>
     /\ t_first = "none" => t_w.race = Pending
     /\ t_first = "op" => (t_op.st # "pending" /\ t_w.race = t_op)
     /\ t_first = "timer" =>
          /\ t_w.race.st = "rejected"
          /\ t_w.race.val.isError
          /\ t_w.race.val.msg = "Request timed out after ${ms} ms"
          /\ t_w.race.val.ms = t_ms

\* C5 witness: the timer of a d > 1 wrapper fired first and op settled later.
C5_Witness ==
  /\ t_pc = "called"
  /\ t_ms > 1
  /\ t_first = "timer"
  /\ t_op.st = "resolved"
  /\ t_w.race.st = "rejected"

\* C7 (as claimed): once the wrapped operation has settled (resolved or
\* rejected) before the deadline, no timer armed for it is still pending.
C7_TimerCancelledOnSettle ==
  (t_pc = "called" /\ t_first = "op") => t_w.timer # "armed"

(* ------------- claims on fetchTransport and Fetcher.request ------------ *)
\* C6 (as claimed): whenever the timer of an attempt expires before the
\* attempt has settled, the abort signal that was handed to the network
\* primitive for that attempt is aborted.
C6_ExpiryAbortsFetchSignal ==
  \A i \in 1..Len(f_atts) :
    f_atts[i].first = "timer" => f_atts[i].signal

\* C8: when the transport fails with an Error named 'AbortError', the caller
\* of request(), get, post, put or delete receives a distinct Error with the
\* message 'Request timed out' and never the AbortError; every other error
\* of the transport reaches the caller unchanged.
C8_AbortRemapped ==
  (h_pc = "settled" /\ f_out.st = "rejected") =>
     IF f_out.val.isError /\ f_out.val.name = "AbortError"
       THEN /\ h_out.st = "rejected"
            /\ h_out.val.isError
            /\ h_out.val.msg = "Request timed out"
            /\ h_out.val.name # "AbortError"
            /\ h_out.val # f_out.val
       ELSE h_out = f_out

\* C8 witness: the transport rejected with the AbortError of a timed-out
\* attempt and the caller of get() has its result.
C8_Witness ==
  /\ h_pc = "settled"
  /\ h_kind = "get"
  /\ f_out.st = "rejected"
  /\ f_out.val = AbortErr(Len(f_atts))
  /\ f_atts[Len(f_atts)].w.timer = "fired"
  /\ h_out.val.msg = "Request timed out"

IsTimeoutFailure(e) ==
  /\ e.isError
  /\ e.msg \in {"Request timed out", "Request timed out after ${ms} ms"}

TimedOutSettled ==
  /\ h_pc = "settled"
  /\ h_out.st = "rejected"
  /\ IsTimeoutFailure(h_out.val)

\* C9: with a timeout d > 0 and a network primitive that never settles on
\* its own, every request eventually settles, rejected with a Timeout
\* failure (under fair timers and a fetch that honours its abort signal).
C9_NeverSettlingTimesOut ==
  (f_net = "never" /\ f_timeout > 0) ~> TimedOutSettled

\* C9 witness: such a request, retried once, has been rejected as timed out.
C9_Witness ==
  /\ f_net = "never"
  /\ f_timeout > 0
  /\ Len(f_atts) = 2
  /\ TimedOutSettled

\* C10: every attempt has its own timer, armed for the full configured
\* duration counted from the start of that attempt (time spent by earlier
\* attempts does not shorten it), and its own cancellation token: a token
\* is aborted, or an attempt fails as cancelled / timed out, only by the
\* expiry of that attempt's own timer.
C10_FreshClockPerAttempt ==
  \A i \in 1..Len(f_atts) :
    LET a == f_atts[i] IN
    /\ (a.w.timer = "none") <=> (f_timeout = Undefined \/ f_timeout = 0)
    /\ a.w.timer = "armed" => a.w.remaining = f_timeout - (f_clock - a.start)
    /\ a.w.timer = "fired" => f_clock - a.start >= f_timeout
    /\ (a.signal \/ a.w.aborted) => a.w.timer = "fired"
    /\ (a.w.race.st = "rejected" /\ a.w.race.val.isError
          /\ (a.w.race.val.name = "AbortError" \/ IsTimeoutFailure(a.w.race.val)))
         => (a.w.timer = "fired" /\ a.w.race.val.att = i)

\* C10 witness: the first attempt was ended by its timer after d > 0 units
\* and the second attempt runs with a timer armed for the full d.
C10_Witness ==
  /\ Len(f_atts) = 2
  /\ f_timeout > 0
  /\ f_atts[1].w.timer = "fired"
  /\ f_atts[1].w.race.st = "rejected"
  /\ f_atts[2].w.timer = "armed"
  /\ f_atts[2].w.remaining = f_timeout
  /\ f_clock >= f_timeout

(* ------------- claims on retries and statuses of a request ------------- *)
\* the number of times the network primitive has been invoked
FetchCalls == Len(f_atts)

\* C11: with effective retry bound r the network primitive is invoked at
\* most r+1 times; with r = 1, a first invocation that fails and a second
\* that succeeds before any timeout, the primitive is invoked exactly twice
\* and the call resolves with the response of the second invocation.
C11_AtMostRetriesPlusOne ==
  /\ FetchCalls <= f_retries + 1
  /\ (f_retries = 1 /\ f_pc = "done" /\ f_atts[1].w.race.st = "rejected") => FetchCalls = 2
  /\ ( /\ f_retries = 1 /\ FetchCalls = 2
       /\ f_atts[1].net.st = "rejected"
       /\ f_atts[2].net.st = "resolved" /\ f_atts[2].net.val.status = 200
       /\ f_atts[2].w.timer # "fired" )
     => /\ f_pc = "done"
        /\ f_out = Resolved(f_atts[2].net.val)
        /\ q_pc = "settled" => q_out = f_out
        /\ (h_pc = "settled" /\ h_read # "failed") =>
             /\ h_out.st = "resolved"
             /\ h_out.val.att = 2 /\ h_out.val.body = f_atts[2].net.val.body
             /\ h_out.val.tag = IF h_kind = "request" THEN "resp" ELSE "json"
C11_Witness ==
  /\ f_retries = 1 /\ FetchCalls = 2 /\ h_kind = "get" /\ h_pc = "settled"
  /\ f_atts[1].net = Rejected(NetworkErr(1))
  /\ f_atts[2].net.st = "resolved" /\ f_atts[2].net.val.status = 200
  /\ h_out.st = "resolved" /\ h_out.val.att = 2

\* C12: when fetch returns a response whose status is not a success status,
\* the transport never resolves with that response; the invocation fails
\* with an HttpError that carries the status and the status text.
C12_NonSuccessFailsWithHttpError ==
  \A i \in 1..Len(f_atts) :
    (f_atts[i].net.st = "resolved" /\ ~(f_atts[i].net.val.status \in 200..299)) =>
      /\ f_out # Resolved(f_atts[i].net.val)
      /\ f_atts[i].w.race # Resolved(f_atts[i].net.val)
      /\ f_atts[i].first = "op" =>
           /\ f_atts[i].w.race.st = "rejected"
           /\ f_atts[i].w.race.val.name = "HttpError"
           /\ f_atts[i].w.race.val.status = f_atts[i].net.val.status
           /\ f_atts[i].w.race.val.statusText = f_atts[i].net.val.statusText

\* C13: when the response get() receives from request() has a non-success
\* status s and body text b, get() rejects with an Error whose message is
\* 'HTTP s: b'; get() never resolves for a non-success response.
C13_GetRejectsNonSuccess ==
  (h_kind = "get" /\ h_pc = "settled") =>
    /\ (q_out.st = "resolved" /\ ~(q_out.val.status \in 200..299) /\ h_read = "ok") =>
         /\ h_out.st = "rejected"
         /\ h_out.val.msg = "HTTP ${response.status}: ${errorText}"
         /\ h_out.val.status = q_out.val.status
         /\ h_out.val.body = q_out.val.body
    /\ h_out.st = "resolved" =>
         \A i \in 1..Len(f_atts) :
           (f_atts[i].net.st = "resolved" /\ h_out.val.att = i) =>
             f_atts[i].net.val.status \in 200..299
C13_Witness ==
  /\ h_kind = "get" /\ h_pc = "settled"
  /\ q_out.st = "resolved" /\ q_out.val.status = 500
  /\ h_out.st = "rejected" /\ h_out.val.status = 500 /\ h_out.val.body = "Internal error"

(* --------------------- claims on progress downloads -------------------- *)
\* the invocations of the progress callback made by attempt i, in call order
CallsOf(i) == SelectSeq(d_calls, LAMBDA c : c.att = i)
\* the first n bytes of a body
Bytes(n) == [k \in 1..n |-> k]

\* C14 (as claimed): over all the calls of the progress callback made during
\* one download, in call order, the reported counts never decrease, there is
\* one call per chunk of the body returned, the increments between calls are
\* exactly the successive bytes of that body (no gap, no duplicate), and the
\* last reported count is the length of the body returned to the caller.
C14_ProgressCoversBody ==
  ( /\ d_pc = "settled" /\ d_out.st = "resolved"
    /\ f_atts[d_out.val.att].dl.state = "done" ) =>
      LET body == d_out.val.bytes
          chunks == f_atts[d_out.val.att].dl.chunks
          before(k) == IF k = 1 THEN 0 ELSE d_calls[k - 1].loaded
          last == IF d_calls = <<>> THEN 0 ELSE d_calls[Len(d_calls)].loaded
      IN /\ Len(d_calls) = Len(chunks)
         /\ \A k \in 1..Len(d_calls) :
              /\ d_calls[k].loaded >= before(k)
              /\ chunks[k] = [j \in 1..(d_calls[k].loaded - before(k)) |-> before(k) + j]
         /\ last = Len(body)

\* C14 (amended): within each attempt of a download the progress callback is
\* invoked once per chunk the attempt received, in receipt order, with the
\* attempt's cumulative byte count; the counts of an attempt never decrease,
\* the increments between its calls are exactly the successive bytes of its
\* response body (no gap, no duplicate), and the last count of the attempt
\* whose body is returned is the length of the body handed to the caller.
C14_ProgressPerChunkCumulative ==
  \A i \in 1..Len(f_atts) :
    LET dl == f_atts[i].dl
        calls == CallsOf(i)
        before(k) == IF k = 1 THEN 0 ELSE calls[k - 1].loaded
        last == IF calls = <<>> THEN 0 ELSE calls[Len(calls)].loaded
    IN /\ Len(calls) = Len(dl.chunks)
       /\ \A k \in 1..Len(calls) :
            /\ calls[k].loaded >= before(k)
            /\ dl.chunks[k] = [j \in 1..(calls[k].loaded - before(k)) |-> before(k) + j]
       /\ last = dl.sent
       /\ dl.state = "done" =>
            /\ dl.result.bytes = Bytes(dl.sent)
            /\ Len(dl.result.bytes) = last
            /\ (d_pc = "settled" /\ d_out.st = "resolved" /\ d_out.val.att = i)
                 => Len(d_out.val.bytes) = last
\* C14 witness: a download settled with a three-byte body that one attempt
\* received in two chunks, reported as 1 and then 3.
C14_Witness ==
  /\ d_pc = "settled" /\ d_out.st = "resolved"
  /\ Len(d_calls) = 2 /\ d_calls[1].att = d_calls[2].att
  /\ d_calls[1].loaded = 1 /\ d_calls[2].loaded = 3
  /\ Len(d_out.val.bytes) = 3

\* C15: once the stream is exhausted the transport returns a new envelope
\* whose body is the received chunks concatenated in receipt order, whose
\* status, status text and headers are those of the original response, and
\* whose body is unread; that envelope is what the caller reads.
C15_RebuiltEnvelope ==
  \A i \in 1..Len(f_atts) :
    f_atts[i].dl.state = "done" =>
      LET dl == f_atts[i].dl
          original == f_atts[i].net.val
      IN /\ dl.result.bytes = Blob(dl.chunks)
         /\ dl.result.bytes = Bytes(dl.sent)
         /\ dl.result.status = original.status
         /\ dl.result.statusText = original.statusText
         /\ dl.result.contentLength = original.contentLength
         /\ dl.result.hasBody /\ ~dl.result.bodyUsed
         /\ (f_out.st = "resolved" /\ f_out.val.att = i) => f_out.val = dl.result
         /\ (d_pc = "settled" /\ d_out.st = "resolved" /\ d_out.val.att = i)
              => d_out.val.bytes = dl.result.bytes
C15_Witness ==
  /\ d_pc = "settled" /\ d_out.st = "resolved" /\ d_out.val.bytes = <<1, 2, 3>>
  /\ f_out.st = "resolved" /\ f_out.val.statusText = "OK"
  /\ f_out.val.contentLength = MaxChunkLen
  /\ f_atts[Len(f_atts)].dl.state = "done" /\ Len(f_atts[Len(f_atts)].dl.chunks) = 2

(* ------------- claims on the client: interceptors, options ------------- *)
\* C16: each interceptor slot holds exactly the function most recently
\* registered for its kind (none if none was registered), so registering one
\* kind leaves the other slot as it was; a request runs at most one request
\* interceptor and at most one response interceptor.
C16_SingleSlotLastWins ==
  /\ c_client.requestInterceptor = c_log.lastRequestUse
  /\ c_client.responseInterceptor = c_log.lastResponseUse
  /\ Len(c_log.ranRequest) <= 1
  /\ Len(c_log.ranResponse) <= 1
C16_Witness ==
  /\ c_req.pc = "settled"
  /\ c_log.ranRequest = <<"addHeader">> /\ c_client.requestInterceptor = "rewrite"
  /\ c_log.ranResponse = <<"passthrough">> /\ c_client.responseInterceptor = "readAndReturn"

\* C17: the request interceptor is given the merged request (the per-call
\* config with default headers overridden by per-call headers and with the
\* client's credentials) and what it returns is the configuration handed to
\* the transport; with no interceptor the merged request is handed over.
C17_InterceptorSeesMergedReturnsSent ==
  (c_req.op = "request" /\ c_req.pc # "idle") =>
    LET expected ==
          [method |-> c_req.config.method,
           headers |-> [n \in HeaderNames |->
                          IF c_req.config.headers[n] # Absent
                            THEN c_req.config.headers[n] ELSE c_client.headers[n]],
           credentials |-> IF c_client.credentials # Absent
                             THEN c_client.credentials ELSE c_req.config.credentials,
           timeout |-> c_req.config.timeout,
           retries |-> c_req.config.retries,
           body |-> c_req.config.body]
    IN IF c_log.ranRequest # <<>>
         THEN /\ c_log.given = expected
              /\ c_req.sent.sent => c_req.sent.config = c_log.returned
         ELSE c_req.sent.sent /\ c_req.sent.config = expected
C17_Witness ==
  /\ c_req.op = "request" /\ c_req.sent.sent
  /\ c_log.ranRequest = <<"addHeader">>
  /\ c_client.credentials = "include" /\ c_req.config.credentials = "omit"
  /\ c_client.headers["Authorization"] = "default" /\ c_req.config.headers["Authorization"] = "call"
  /\ c_log.given.headers["Authorization"] = "call" /\ c_log.given.headers["X-Trace"] = "default"
  /\ c_req.sent.config.headers["X-Trace"] = "intercepted"

\* C18: a response interceptor that only reads the body of the envelope it
\* is given and returns that envelope does not change what the caller
\* receives: an envelope with an unread body of the same content.
C18_ReadingInterceptorLeavesBody ==
  ( /\ c_req.op = "request" /\ c_req.pc = "settled"
    /\ c_log.ranResponse \in {<<"passthrough">>, <<"readAndReturn">>} )
  => /\ c_req.out.st = "resolved"
     /\ ~c_req.out.val.bodyUsed
     /\ c_req.out.val.body = c_req.response.val.body
     /\ c_req.out.val.status = c_req.response.val.status

\* C19: a request already dispatched to the transport is not affected by a
\* later use(): the response interceptor it runs is the one that was
\* registered when it was dispatched (none if none was).
C19_InFlightKeepsInterceptors ==
  (c_req.op = "request" /\ c_req.response.st = "resolved") =>
    c_log.ranResponse = IF c_log.atDispatch = None THEN <<>> ELSE <<c_log.atDispatch>>

\* C20: the timeout and the retry bound handed to the transport are the
\* per-call values whenever the call supplies them, an explicit 0 included,
\* and the client's values exactly when the call leaves them unset.
C20_PerCallOverridesDefaults ==
  c_req.sent.sent =>
    /\ c_req.sent.timeout =
         IF c_req.config.timeout # Undefined THEN c_req.config.timeout ELSE c_client.timeout
    /\ c_req.sent.retries =
         IF c_req.config.retries # Undefined THEN c_req.config.retries ELSE c_client.retries
C20_Witness ==
  /\ c_req.sent.sent
  /\ c_req.config.timeout = 0 /\ c_client.timeout = MaxTimeout /\ c_req.sent.timeout = 0
  /\ c_req.config.retries = Undefined /\ c_client.retries > 0
  /\ c_req.sent.retries = c_client.retries

(* ---------- claims on helpers, retried statuses and timeouts ----------- *)
\* C24: get(url, config) and delete(url, config) settle with the same
\* outcome (same response envelope or same error) as the call of request()
\* with the helper's method that they make.
C24_HelperIsRequestShorthand ==
  (h_pc = "settled" /\ h_kind \in {"get", "delete"}) => h_out = q_out

\* C28: a response with a non-success status counts as a failed attempt and
\* is retried: when every invocation of fetch answers with status 500, fetch
\* is invoked retries+1 times and the transport then fails.
C28_NonSuccessStatusRetried ==
  ( /\ f_pc = "done" /\ f_retries >= 1
    /\ \A i \in 1..Len(f_atts) :
         /\ f_atts[i].net.st = "resolved" /\ f_atts[i].net.val.status = 500
         /\ f_atts[i].first = "op" )
  => /\ FetchCalls = f_retries + 1
     /\ f_out.st = "rejected"

\* C29: with a timeout d > 0 and a fetch that never settles on its own,
\* once the call has settled exactly retries+1 attempts were started, each
\* was cancelled when its own timer fired (the signal handed to its fetch is
\* aborted), and the call is rejected with the failure of the last attempt.
C29_TimedOutAttemptsRetried ==
  (f_net = "never" /\ f_timeout > 0 /\ f_pc = "done") =>
    /\ FetchCalls = f_retries + 1
    /\ f_out.st = "rejected" /\ f_out.val.att = FetchCalls
    /\ \A i \in 1..Len(f_atts) :
         /\ f_atts[i].w.timer = "fired"
         /\ f_atts[i].signal

\* C30: when the transport of downloadWithProgress fails with an AbortError
\* (its timeout expired), the caller of downloadWithProgress receives the
\* Error 'Request timed out' and never the AbortError.
C30_DownloadAbortRemapped ==
  ( /\ d_pc = "settled" /\ f_out.st = "rejected"
    /\ f_out.val.isError /\ f_out.val.name = "AbortError" )
  => d_out = Rejected(RequestTimedOut)


(* ------------------ claims on the client's merged request -------------- *)
\* Fetcher.ts:165-171  the configuration request() has built when it reaches
\* the request interceptor or, without one, the transport
MergedOfCall == IF c_log.ranRequest # <<>> THEN c_log.given ELSE c_req.finalConfig

\* C21: in the merged request a per-call header overrides the default header
\* of the same name while the other default headers are kept, and a per-call
\* credentials value is the one sent even when the client has a default one.
C21_PerCallWinsInMerge ==
  (c_req.pc # "idle" /\ c_req.op = "request") =>
    /\ \A n \in HeaderNames :
         MergedOfCall.headers[n] =
           IF c_req.config.headers[n] # Absent THEN c_req.config.headers[n]
           ELSE c_client.headers[n]
    /\ c_req.config.credentials # Absent =>
         MergedOfCall.credentials = c_req.config.credentials



\* C22: the request post() and put() hand to the transport carries the JSON
\* serialization of the given body, the method POST (post) or PUT (put), and
\* a Content-Type header equal to 'application/json', whatever the client's
\* default headers and the per-call headers are.
C22_JsonHelpersForceContentType ==
  (c_req.op \in JsonHelpers /\ c_req.sent.sent /\ c_log.ranRequest = <<>>) =>
    /\ c_req.sent.config.method = (IF c_req.op = "post" THEN "POST" ELSE "PUT")
    /\ c_req.sent.config.body = JsonStringify(c_req.payload)
    /\ c_req.sent.config.headers["Content-Type"] = "application/json"

\* C23: a client constructed without a timeout option has the default timeout
\* of 6000 ms, which is the timeout handed to the transport by a request that
\* sets none; a client constructed without a retries option has retry bound 0.
C23_DefaultTimeoutAndRetries ==
  /\ c_log.options.timeout = Undefined => c_client.timeout = DefaultTimeout
  /\ c_log.options.retries = Undefined => c_client.retries = 0
  /\ ( /\ c_req.sent.sent
       /\ c_log.options.timeout = Undefined /\ c_req.config.timeout = Undefined )
     => c_req.sent.timeout = DefaultTimeout


(* --------------------- claims on the legacy transport ------------------ *)
IsUploadProgress(ev) == ev.type = "upload.progress"
IsDownloadProgress(ev) == ev.type = "progress"

\* C25: a terminal event of the primitive settles the transport's promise:
\* a load event resolves it with an envelope holding the primitive's status,
\* status text, parsed headers and body, an error event rejects it with
\* Error('XHR Network Error'), a timeout event with Error('XHR Timeout').
C25_TerminalEventMapsToOutcome ==
  Len(Terminals(x_events)) = 1 =>
    LET ev == Head(Terminals(x_events)) IN
      CASE ev.type = "load" ->
             LET parsed == ParseHeaders(ev.raw) IN
             /\ x_out.st = "resolved"
             /\ x_out.val.tag = "resp"
             /\ x_out.val.status = ev.status /\ x_out.val.statusText = ev.statusText
             /\ x_out.val.body = ev.response
             /\ Len(x_out.val.headers) >= Len(parsed)
             /\ \A k \in 1..Len(parsed) : x_out.val.headers[k] = parsed[k]
        [] ev.type = "error" -> x_out = Rejected(XhrError("XHR Network Error"))
        [] ev.type = "timeout" -> x_out = Rejected(XhrError("XHR Timeout"))

\* C26: at every moment, hence when the transport's promise resolves, the
\* download callback has received exactly the download progress events the
\* primitive emitted, in emission order and unchanged, and the upload callback
\* exactly the upload progress events; with an upload callback and a primitive
\* without upload channel the transport throws nothing and calls send.
C26_ProgressDeliveredInOrder ==
  /\ x_opts.onDownloadProgress => x_down = SelectSeq(x_events, IsDownloadProgress)
  /\ (x_opts.onUploadProgress /\ x_xhr.upload) => x_up = SelectSeq(x_events, IsUploadProgress)
  /\ (x_pc # "start" /\ x_opts.onUploadProgress /\ ~x_xhr.upload) =>
       (x_xhr.sent /\ ~x_xhr.threw /\ (x_events = <<>> => x_out = Pending))
C26_Witness ==
  /\ x_out.st = "resolved"
  /\ Len(x_up) = 1 /\ Len(x_down) = 1
  /\ x_events[1].type = "upload.progress" /\ x_events[2].type = "progress"

\* C27: postWithUploadProgress on a client configured with credentials
\* 'include' sends through an XMLHttpRequest whose withCredentials is true.
C27_UploadSendsClientCredentials ==
  ( /\ x_opts.op = "postWithUploadProgress" /\ x_xhr.sent
    /\ c_client.credentials = "include" )
  => x_xhr.withCredentials


\* C33: once the primitive has delivered a terminal event (load, error or
\* timeout) the outcome of the transport's promise is fixed: no later step,
\* in particular no later terminal event, changes it.
C33_FirstTerminalEventFixesOutcome ==
  [][Terminals(x_events) # <<>> => x_out' = x_out]_vars


\* the positions of an operation in the log of the operations on the primitive
Positions(calls, name) == {i \in 1..Len(calls) : calls[i] = name}
Precedes(calls, a, b) ==
  \A i \in Positions(calls, a), j \in Positions(calls, b) : i < j

\* C34: once the transport has been called, open is the first operation on
\* the primitive; the credentials flag, the timeout and the headers are set
\* after open; the progress handlers asked for and the load, error and timeout
\* handlers are installed before send; send is called exactly once, last, with
\* the body or null; so every event is delivered with its handler installed.
C34_FixedOrderOnPrimitive ==
  x_pc # "start" =>
    LET calls == x_xhr.calls IN
      /\ calls[1] = "open" /\ Positions(calls, "open") = {1}
      /\ Positions(calls, "send") = {Len(calls)}
      /\ \A h \in {"onload", "onerror", "ontimeout"} :
           Positions(calls, h) # {} /\ Precedes(calls, h, "send")
      /\ x_opts.onDownloadProgress => Positions(calls, "onprogress") # {}
      /\ (x_opts.onUploadProgress /\ x_xhr.upload) =>
           Positions(calls, "upload.onprogress") # {}
      /\ x_opts.credentials = "include" => Positions(calls, "withCredentials") # {}
      /\ ~Falsy(x_opts.timeout) => Positions(calls, "timeout") # {}
      /\ x_xhr.body = (IF x_opts.body = Absent THEN "null" ELSE x_opts.body)
      /\ x_events # <<>> => (x_xhr.onload /\ x_xhr.onerror /\ x_xhr.ontimeout)
C34_Witness ==
  /\ x_xhr.sent /\ x_events # <<>>
  /\ x_xhr.withCredentials /\ x_xhr.timeout > 0
  /\ x_xhr.onprogress /\ x_xhr.uploadOnprogress
  /\ x_xhr.requestHeaders # NoHeaders
  /\ x_xhr.body = "null"


\* C39: downloadWithProgress and postWithUploadProgress run neither the
\* registered request interceptor nor the registered response interceptor,
\* and postWithUploadProgress calls send on the primitive exactly once per
\* call, whatever the retry bound and however the transport settles.
C39_ProgressOperationsBypassPipeline ==
  /\ (c_req.op = "downloadWithProgress" \/ x_opts.op = "postWithUploadProgress") =>
       (c_log.ranRequest = <<>> /\ c_log.ranResponse = <<>>)
  /\ (x_opts.op = "postWithUploadProgress" /\ x_pc # "start") =>
       Cardinality(Positions(x_xhr.calls, "send")) = 1
C39_Witness ==
  /\ x_opts.op = "postWithUploadProgress"
  /\ x_pc = "done" /\ x_result.st = "rejected"
  /\ c_client.retries > 0
  /\ c_client.requestInterceptor # None /\ c_client.responseInterceptor # None


\* C40: no step of a request, get, post, put, delete, downloadWithProgress or
\* postWithUploadProgress call changes baseURL, the default headers, the
\* timeout, the retry bound or the credentials of the client; the client
\* changes only by interceptors.request.use, which changes the request slot
\* alone, and interceptors.response.use, which changes the response slot alone.
C40_OnlyUseChangesClient ==
  [][ /\ c_client'.baseURL = c_client.baseURL
      /\ c_client'.headers = c_client.headers
      /\ c_client'.timeout = c_client.timeout
      /\ c_client'.retries = c_client.retries
      /\ c_client'.credentials = c_client.credentials
      /\ c_client'.requestInterceptor # c_client.requestInterceptor =>
           /\ c_log'.lastRequestUse # c_log.lastRequestUse
           /\ c_client'.responseInterceptor = c_client.responseInterceptor
           /\ c_req' = c_req
      /\ c_client'.responseInterceptor # c_client.responseInterceptor =>
           /\ c_log'.lastResponseUse # c_log.lastResponseUse
           /\ c_client'.requestInterceptor = c_client.requestInterceptor
           /\ c_req' = c_req ]_vars
C40_Witness ==
  /\ c_req.op = "put" /\ c_req.pc = "settled" /\ c_req.out.st = "rejected"
  /\ c_client.requestInterceptor = "rewrite" /\ c_log.ranRequest = <<"addHeader">>
  /\ c_client.responseInterceptor = "passthrough"
  /\ c_client.timeout > 0 /\ c_client.headers # NoHeaders


(* ------------------- claims on the download progress ------------------- *)
\* the Content-Length header of the response the attempt of a call received
HeaderOfCall(c) == f_atts[c.att].net.val.contentLength

\* C38: every invocation of the download-progress callback within an attempt
\* is given the same total: the numeric value of the response's
\* content-length header when the header is present, null exactly when it is
\* absent.
C38_TotalIsContentLength ==
  \A i \in 1..Len(d_calls) :
    d_calls[i].total =
      IF HeaderOfCall(d_calls[i]) = Undefined THEN Null ELSE HeaderOfCall(d_calls[i])


\* C37: when an attempt of a progress download failed after chunks were
\* reported and the request is retried, the next attempt counts from zero
\* into an empty chunk buffer: its first report is the length of its first
\* chunk, its count is the length of its own chunks, the body returned to the
\* caller holds the chunks of the successful attempt only, and the last
\* reported count is that body's length.
C37_ProgressIsPerAttempt ==
  \A i \in 2..Len(f_atts) :
    (f_atts[i - 1].dl.state = "failed" /\ f_atts[i - 1].dl.chunks # <<>>) =>
      LET dl == f_atts[i].dl
          calls == CallsOf(i)
      IN /\ calls # <<>> => calls[1].loaded = Len(dl.chunks[1])
         /\ dl.received = Len(Blob(dl.chunks))
         /\ (d_pc = "settled" /\ d_out.st = "resolved" /\ d_out.val.att = i /\ dl.state = "done")
              => /\ d_out.val.bytes = Blob(dl.chunks)
                 /\ calls # <<>> => d_calls[Len(d_calls)].loaded = Len(d_out.val.bytes)


(* ------------------------ claims on settled outcomes ------------------- *)
\* C35: the outcome of a timeout-wrapped operation is stable once settled.
\* After the promise withTimeout returned has settled, no later step changes
\* the value or error it settled with: a timer that fires (and the abort it
\* causes) after the operation rejected leaves the operation's own error in
\* place, never a Timeout error, and a settlement of the operation after the
\* timer fired leaves the Timeout error in place.
C35_TimeoutOutcomeStable ==
  [][ /\ (t_pc = "called" /\ t_w.race.st # "pending") => t_w'.race = t_w.race
      /\ (t_pc = "called" /\ t_op.st = "rejected" /\ t_w.timer = "armed"
            /\ t_w'.timer = "fired")
         => (t_w'.aborted /\ t_w'.race = t_op /\ t_w'.race # Rejected(TimeoutErr(t_ms, 1)))
      /\ (t_pc = "called" /\ t_w.timer = "fired" /\ t_op = Pending /\ t_op' # Pending)
         => t_w'.race = Rejected(TimeoutErr(t_ms, 1)) ]_vars
\* C35 witness: the operation rejected first, its timer fired later and
\* aborted the controller, and the promise still carries the operation's error.
C35_Witness ==
  /\ t_pc = "called" /\ t_ms > 0
  /\ t_first = "op" /\ t_op.st = "rejected"
  /\ t_w.timer = "fired" /\ t_w.aborted
  /\ t_w.race = t_op

\* C31: when request() gave get() a response with a non-success status and
\* the read of its body fails, get() still rejects with the status error
\* ('HTTP s: ...', carrying s), not with the error of the read.
C31_StatusErrorNotMasked ==
  ( /\ h_kind = "get" /\ h_pc = "settled" /\ h_read = "failed"
    /\ q_out.st = "resolved" /\ ~IsOk(q_out.val.status) )
  => /\ h_out.st = "rejected"
     /\ h_out.val.msg = "HTTP ${response.status}: ${errorText}"
     /\ h_out.val.status = q_out.val.status


\* The states of one request() call, in the order of the state machine:
\* Configured, Intercepting(request), Dispatching, Intercepting(response),
\* Settled; a helper built on request() then reads the body ("reading")
\* before its own promise settles.
StateRank(pc) ==
  CASE pc = "idle" -> 0
    [] pc = "requestInterceptor" -> 1
    [] pc = "dispatched" -> 2
    [] pc = "responseInterceptor" -> 3
    [] pc = "reading" -> 4
    [] pc = "settled" -> 5
Incr(cond) == IF cond THEN 1 ELSE 0

LastOwned(i) ==
  CHOOSE p \in Owned(i) : \A q \in Owned(i) : q[2] <= p[2]
\* Everything request i has: its call and the invocations made for it.
StateOf(req, act, i) ==
  [call |-> req[i],
   atts |-> [p \in {q \in Requests \X (1..(MaxFetchRetries + 2)) :
                      q[2] <= Len(act[q[1]].atts) /\ act[q[1]].atts[q[2]].owner = i}
             |-> act[p[1]].atts[p[2]]]]

\* C36: under every interleaving of two requests on one client, (1) the
\* fetch invocations made for a request number at most its own retry bound
\* plus one; (2) when a timer expiry aborts a signal, the signal is the one
\* of the attempt the timer belongs to, and nothing of the other request
\* changes in that step; (3) a settled request has the outcome of its own
\* last attempt and keeps it, and the step in which one request fails
\* changes nothing of the other.
C36_ConcurrentRequestsIsolated ==
  [][ \A i \in Requests :
        LET j == CHOOSE o \in Requests : o # i IN
        /\ k_req'[i].started <= k_req'[i].retries + 1
        /\ Cardinality({p \in Requests \X (1..(MaxFetchRetries + 2)) :
                          p[2] <= Len(k_act'[p[1]].atts)
                          /\ k_act'[p[1]].atts[p[2]].owner = i}) = k_req'[i].started
        /\ \A p \in Owned(i) :
             (~k_act[p[1]].atts[p[2]].signal /\ k_act'[p[1]].atts[p[2]].signal) =>
               /\ TimerDue(k_act[p[1]].atts[p[2]].w)
               /\ k_act'[p[1]].atts[p[2]].w.timer = "fired"
               /\ StateOf(k_req', k_act', j) = StateOf(k_req, k_act, j)
        /\ (k_req[i].pc # "settled" /\ k_req'[i].pc = "settled") =>
             /\ Owned(i) # {}
             /\ k_req'[i].out =
                  RequestResult(k_act[LastOwned(i)[1]].atts[LastOwned(i)[2]].w.race)
             /\ StateOf(k_req', k_act', j) = StateOf(k_req, k_act, j)
        /\ k_req[i].pc = "settled" => k_req'[i] = k_req[i]
        /\ StateOf(k_req', k_act', i) # StateOf(k_req, k_act, i) =>
             \/ StateOf(k_req', k_act', j) = StateOf(k_req, k_act, j)
             \/ \A c \in Requests : Len(k_act'[c].atts) = Len(k_act[c].atts)
                                    /\ k_req' = k_req
    ]_vars
\* Request 1 has failed after two attempts, the second cancelled by its own
\* timer, while request 2 is in flight with its first attempt untouched.
C36_Witness ==
  /\ k_req[1].pc = "settled" /\ k_req[1].out.st = "rejected" /\ k_req[1].started = 2
  /\ k_act[1].atts[2].signal /\ k_act[1].atts[2].w.timer = "fired"
  /\ k_req[2].pc = "dispatched" /\ k_req[2].started = 1
  /\ k_act[2].atts[1].net = Pending /\ ~k_act[2].atts[1].signal
  /\ k_act[2].atts[1].w.timer = "armed"

====
